---- MODULE Spec2Model ----
(***************************************************************************)
(* Model of the Vata Studio assistant bot: the BotController session gate  *)
(* (src/managers/control.py) and the message handlers that consult it      *)
(* (src/bot/handlers.py).                                                  *)
(*                                                                         *)
(* Time is the wall clock read by datetime.now(), in whole seconds.        *)
(***************************************************************************)
EXTENDS Integers, Sequences, FiniteSets, TLC

\* ---------------------------------------------------------------- bounds
MaxTicks == 2          \* clock advances per behaviour
MaxMessages == 2       \* cap on the messages recorded, all sessions together
MaxAiResponses == 1    \* cap on stats.ai_responses
MaxInterventions == 2  \* cap on stats.manager_interventions
MaxDisabledCount == 2  \* cap on stats.disabled_sessions
MaxLifetimeTicks == 1  \* clock advances per behaviour of SpecLifetime
MaxLifetimeMessages == 1  \* cap on the messages recorded in SpecLifetime
MaxReloads == 2        \* reloads per behaviour
MaxTextLen == 3        \* characters of a text
MaxRecords == 2        \* records of a sheet searched
MaxInFlight == 1       \* cap on the handlers suspended at an await together
MaxWords == 2          \* words of a message classified
MaxCalls == 2          \* calls for a manager that reach the send loop
MaxNotifierTicks == 1  \* clock advances per behaviour of SpecNotifier

\* ------------------------------------------------------ program constants
typing_timeout_seconds == 30
session_timeout_minutes == 30
SecondsPerDay == 86400
DefaultCleanupHours == 24

Users == {1, 2}
Managers == {0, 10}    \* manager ids, the id 0 included
None == 0 - 1          \* Python None (a missing timestamp, a missing manager id)
ManagerArgs == Managers \cup {None}

\* The amounts by which the clock may advance between two calls: exactly the
\* threshold (not yet exceeded) and the rest of a day (far beyond it); the two
\* together make a whole day.
SessionTickSteps == {session_timeout_minutes * 60,
                     SecondsPerDay - session_timeout_minutes * 60}
TypingTickSteps == {typing_timeout_seconds,
                    SecondsPerDay - typing_timeout_seconds}

VARIABLES
    bot_controller,    \* the BotController instance
    now,               \* the wall clock, seconds
    ticks,             \* how often the clock has advanced
    last_call,         \* the most recent call or handler step, with its result
                       \* (for handle_text_message: what the text asks for)
    db_client,         \* TRUE when a ConversationDatabase is configured
    db_messages,       \* messages table: per user, the is_bot flag of each row
    manager_notifier,  \* the ManagerNotifier instance
    gsheets_client,    \* the GoogleSheetsClient in use: its cache
    data_loaded,       \* main.py's flag of the same name
    loader,            \* the reload in flight: its fetch tasks and results
    last_read,         \* the most recent read of the cache by a query
    search,            \* a text, a record list and a synonym table, with the
                       \* result of the search or rewrite applied to them
    ai_assistant,      \* a text and an intent, with what the AIAssistant
                       \* returned for them
    fsm_state,         \* per user, the state kept by the FSM context
    task,              \* per user, the handler in flight and its locals
    replies            \* what the handler step last taken sent to its user

ctlvars == <<bot_controller, now, ticks, last_call>>
loadvars == <<data_loaded, loader, last_read, search, ai_assistant>>
botvars == <<db_client, db_messages, manager_notifier, gsheets_client, loadvars,
             fsm_state, task, replies>>
vars == <<bot_controller, now, ticks, last_call, db_client, db_messages,
          manager_notifier, gsheets_client, loadvars, fsm_state, task,
          replies>>

\* (a - b).seconds of a Python timedelta: the seconds field, days excluded
TimedeltaSeconds(later, earlier) == (later - earlier) % SecondsPerDay

\* ---------------------------------------------------------- BotController
BotControllerInit ==
    [enabled_users |-> {},
     disabled_users |-> {},
     user_sessions |-> << >>,
     manager_overrides |-> << >>,
     auto_enable_new_users |-> TRUE,
     stats |-> [total_sessions |-> 0, active_sessions |-> 0,
                disabled_sessions |-> 0, ai_responses |-> 0,
                manager_interventions |-> 0]]

\* A session as the controller's operations read it.  started_at and ended_at
\* are written on creation, resume, disable and sweep but read only by the
\* reporting accessor get_user_session_info, so they are not kept.
NewSession(t) ==
    [last_activity |-> t, message_count |-> 0, ai_responses |-> 0,
     active |-> TRUE, typing_started |-> None, typing_timeouts |-> 0]

create_or_update_session(c, u, t) ==
    IF u \notin DOMAIN c.user_sessions
    THEN [c EXCEPT !.user_sessions = (u :> NewSession(t)) @@ @,
                   !.stats.total_sessions = @ + 1,
                   !.stats.active_sessions = @ + 1]
    ELSE IF ~c.user_sessions[u].active
         THEN [c EXCEPT !.user_sessions[u].last_activity = t,
                        !.user_sessions[u].active = TRUE,
                        !.stats.active_sessions = @ + 1,
                        !.stats.disabled_sessions = @ - 1]
         ELSE [c EXCEPT !.user_sessions[u].last_activity = t]

\* the "if manager_id:" block shared by enable and disable; the test is
\* false for None and for the id 0
record_override(c, u, m) ==
    IF m = None \/ m = 0 THEN c
    ELSE LET prev == IF m \in DOMAIN c.manager_overrides
                     THEN c.manager_overrides[m] ELSE << >>
             list == IF \E i \in 1..Len(prev) : prev[i] = u
                     THEN prev ELSE Append(prev, u)
         IN [c EXCEPT !.manager_overrides = (m :> list) @@ @,
                      !.stats.manager_interventions = @ + 1]

\* enable that forgets to take the user out of the disabled set
enable_keeps_disabled(c, u, m, t) ==
    LET c1 == [c EXCEPT !.enabled_users = @ \cup {u}]
    IN create_or_update_session(record_override(c1, u, m), u, t)

enable_bot_for_user(c, u, m, t) ==
    LET c1 == [c EXCEPT !.disabled_users = @ \ {u},
                        !.enabled_users = @ \cup {u}]
    IN create_or_update_session(record_override(c1, u, m), u, t)

\* disable that leaves the session open
disable_keeps_session(c, u, m, t) ==
    record_override([c EXCEPT !.enabled_users = @ \ {u},
                              !.disabled_users = @ \cup {u}], u, m)

disable_bot_for_user(c, u, m, t) ==
    LET c1 == [c EXCEPT !.enabled_users = @ \ {u},
                        !.disabled_users = @ \cup {u}]
        c2 == record_override(c1, u, m)
    IN IF u \in DOMAIN c2.user_sessions
       THEN [c2 EXCEPT !.user_sessions[u].active = FALSE,
                       !.stats.active_sessions = @ - 1,
                       !.stats.disabled_sessions = @ + 1]
       ELSE c2

\* a gate that lets every user through
is_bot_enabled_ignores_disabled(c, u) == TRUE

\* is_bot_enabled_for_user: the value returned, and the controller afterwards
is_bot_enabled_result(c, u) ==
    IF u \in c.disabled_users THEN FALSE
    ELSE IF u \in c.enabled_users THEN TRUE
    ELSE c.auto_enable_new_users

\* a gate query that answers for a new user without registering the user
is_bot_enabled_no_register(c, u, t) == c

is_bot_enabled_for_user(c, u, t) ==
    IF u \in c.disabled_users THEN c
    ELSE IF u \in c.enabled_users THEN c
    ELSE IF c.auto_enable_new_users THEN enable_bot_for_user(c, u, None, t)
    ELSE c

toggle_bot_for_user(c, u, m, t) ==
    IF is_bot_enabled_result(c, u)
    THEN disable_bot_for_user(is_bot_enabled_for_user(c, u, t), u, m, t)
    ELSE enable_bot_for_user(is_bot_enabled_for_user(c, u, t), u, m, t)

record_user_message(c, u, t) ==
    LET c1 == create_or_update_session(c, u, t)
    IN [c1 EXCEPT !.user_sessions[u].message_count = @ + 1,
                  !.user_sessions[u].last_activity = t]

record_ai_response_session_only(c, u) ==
    IF u \in DOMAIN c.user_sessions
    THEN [c EXCEPT !.user_sessions[u].ai_responses = @ + 1]
    ELSE c

record_ai_response(c, u) ==
    IF u \in DOMAIN c.user_sessions
    THEN [c EXCEPT !.user_sessions[u].ai_responses = @ + 1,
                   !.stats.ai_responses = @ + 1]
    ELSE c

start_typing_timer(c, u, t) ==
    IF u \in DOMAIN c.user_sessions
    THEN [c EXCEPT !.user_sessions[u].typing_started = t]
    ELSE c

stop_typing_timer(c, u) ==
    IF u \in DOMAIN c.user_sessions
    THEN [c EXCEPT !.user_sessions[u].typing_started = None]
    ELSE c

\* check_typing_timeout: the value returned, and the controller afterwards
check_typing_timeout_result(c, u, t) ==
    IF u \notin DOMAIN c.user_sessions THEN FALSE
    ELSE IF c.user_sessions[u].typing_started = None THEN FALSE
    ELSE TimedeltaSeconds(t, c.user_sessions[u].typing_started)
             > typing_timeout_seconds

\* a timeout check that counts the timeout but leaves the timer running
check_typing_timeout_keeps_timer(c, u, t) ==
    IF check_typing_timeout_result(c, u, t)
    THEN [c EXCEPT !.user_sessions[u].typing_timeouts = @ + 1]
    ELSE c

check_typing_timeout(c, u, t) ==
    IF check_typing_timeout_result(c, u, t)
    THEN [c EXCEPT !.user_sessions[u].typing_timeouts = @ + 1,
                   !.user_sessions[u].typing_started = None]
    ELSE c

\* a limit of one message per session
check_message_rate_limit_enforced(c, u) ==
    IF u \notin DOMAIN c.user_sessions THEN TRUE
    ELSE c.user_sessions[u].message_count < 1

\* check_message_rate_limit: both paths return True
check_message_rate_limit(c, u) ==
    IF u \notin DOMAIN c.user_sessions THEN TRUE
    ELSE TRUE

\* the users cleanup_inactive_sessions collects in inactive_users
inactive_users(c, t) ==
    {u \in DOMAIN c.user_sessions :
        /\ c.user_sessions[u].active
        /\ TimedeltaSeconds(t, c.user_sessions[u].last_activity) \div 60
               > session_timeout_minutes}

\* a sweep that deletes the sessions it closes
cleanup_deletes_sessions(c, t) ==
    LET swept == inactive_users(c, t)
    IN [c EXCEPT !.user_sessions =
                     [u \in DOMAIN @ \ swept |-> @[u]],
                 !.stats.active_sessions = @ - Cardinality(swept)]

cleanup_inactive_sessions(c, t) ==
    LET swept == inactive_users(c, t)
    IN [c EXCEPT !.user_sessions =
                     [u \in DOMAIN @ |->
                         IF u \in swept
                         THEN [@[u] EXCEPT !.active = FALSE]
                         ELSE @[u]],
                 !.stats.active_sessions = @ - Cardinality(swept)]

update_setting(c, value) == [c EXCEPT !.auto_enable_new_users = value]

\* ------------------------------------------------------------------ state
Call(op, u, r) == [op |-> op, user |-> u, ret |-> r]

\* ------------------------------------------------------- ManagerNotifier
\* avg_response_time is 0, then an int, then the float left by "/ 2": a
\* dyadic number, kept exactly as a fraction in lowest terms
RECURSIVE Fraction(_, _)
Fraction(num, den) ==
    IF den % 2 = 0 /\ num % 2 = 0 THEN Fraction(num \div 2, den \div 2)
    ELSE [num |-> num, den |-> den]

ManagerNotifierInit(ids) ==
    [enabled |-> TRUE,
     manager_ids |-> ids,
     pending_notifications |-> << >>,
     stats |-> [total_calls |-> 0, handled_calls |-> 0,
                avg_response_time |-> Fraction(0, 1),
                last_notification |-> None]]

\* a paging that tracks the notification whether or not it was delivered
page_manager_tracks_failed(n, u, id, ok, t) ==
    [n EXCEPT !.pending_notifications =
                  Append(@, [user_id |-> u, manager_id |-> id,
                             timestamp |-> t, handled |-> FALSE])]

\* notify_manager, lines 69-88: one operator is paged; a delivered
\* notification is tracked, a send that raised is only logged
page_manager(n, u, id, ok, t) ==
    IF ok
    THEN [n EXCEPT !.pending_notifications =
                       Append(@, [user_id |-> u, manager_id |-> id,
                                  timestamp |-> t, handled |-> FALSE])]
    ELSE n

\* the notifications that mark_notification_handled(user_id, manager_id)
\* may mark: of the user, not handled, of the manager if one is given
Markable(n, u, m) ==
    {i \in 1..Len(n.pending_notifications) :
        /\ n.pending_notifications[i].user_id = u
        /\ ~n.pending_notifications[i].handled
        /\ (m = None \/ n.pending_notifications[i].manager_id = m)}

mark_notification_handled_result(n, u, m) == Markable(n, u, m) # {}

\* the statistics update of mark_notification_handled, lines 138-145
update_stats(stats, response_time) ==
    [stats EXCEPT
        !.handled_calls = @ + 1,
        !.avg_response_time =
            IF @.num = 0 THEN Fraction(response_time, 1)
            ELSE Fraction(@.num + response_time * @.den, 2 * @.den)]

mark_notification_handled_latest(n, u, m, t) ==
    IF Markable(n, u, m) = {} THEN n
    ELSE LET i == CHOOSE k \in Markable(n, u, m) :
                      \A j \in Markable(n, u, m) : k >= j
             entry == n.pending_notifications[i]
             response_time == TimedeltaSeconds(t, entry.timestamp)
         IN [n EXCEPT
                !.pending_notifications[i] =
                    ("handled_at" :> t) @@ [entry EXCEPT !.handled = TRUE],
                !.stats = update_stats(@, response_time)]

\* mark_notification_handled: the first notification in the list that may
\* be marked is marked, and the loop returns
mark_notification_handled(n, u, m, t) ==
    IF Markable(n, u, m) = {} THEN n
    ELSE LET i == CHOOSE k \in Markable(n, u, m) :
                      \A j \in Markable(n, u, m) : k <= j
             entry == n.pending_notifications[i]
             response_time == TimedeltaSeconds(t, entry.timestamp)
         IN [n EXCEPT
                !.pending_notifications[i] =
                    ("handled_at" :> t) @@ [entry EXCEPT !.handled = TRUE],
                !.stats = update_stats(@, response_time)]

\* cleanup_old_notifications(hours)
cleanup_old_notifications(n, hours, t) ==
    [n EXCEPT !.pending_notifications =
                  SelectSeq(@, LAMBDA e : t - e.timestamp < hours * 3600)]

\* ------------------------------------------------------------- strings
\* A text is a sequence of characters; UpperToLower gives the lower case of
\* the upper-case characters in use.
Chars == {"a", "b", "A", " "}

Texts(n) == UNION {[1..k -> Chars] : k \in 0..n}

\* str.lower
UpperToLower ==
    ("A" :> "a") @@ ("_A" :> "_a") @@ ("_I" :> "_i") @@ ("_P" :> "_p") @@
    ("_R" :> "_r") @@ ("_T" :> "_t") @@ ("_F" :> "_f") @@ ("_Y" :> "_y")

LowerChar(ch) == IF ch \in DOMAIN UpperToLower THEN UpperToLower[ch] ELSE ch
Lower(s) == [i \in 1..Len(s) |-> LowerChar(s[i])]

\* the whitespace characters in use: what str.strip removes and \s matches
Whitespace == {" ", "\n", "\t", "nbsp"}

\* str.strip
RECURSIVE Strip(_)
Strip(s) ==
    IF s = << >> THEN s
    ELSE IF s[1] \in Whitespace THEN Strip(Tail(s))
    ELSE IF s[Len(s)] \in Whitespace THEN Strip(SubSeq(s, 1, Len(s) - 1))
    ELSE s

\* s in t
IsSubstring(s, t) ==
    \E i \in 0..(Len(t) - Len(s)) : SubSeq(t, i + 1, i + Len(s)) = s

\* str.split(): the maximal runs of characters other than whitespace
RECURSIVE SplitFrom(_, _, _)
SplitFrom(s, word, words) ==
    IF s = << >>
    THEN IF word = << >> THEN words ELSE Append(words, word)
    ELSE IF s[1] = " "
    THEN SplitFrom(Tail(s), << >>,
                   IF word = << >> THEN words ELSE Append(words, word))
    ELSE SplitFrom(Tail(s), Append(word, s[1]), words)

Split(s) == SplitFrom(s, << >>, << >>)

\* ' '.join(words)
RECURSIVE Join(_)
Join(words) ==
    IF words = << >> THEN << >>
    ELSE IF Len(words) = 1 THEN words[1]
    ELSE words[1] \o <<" ">> \o Join(Tail(words))

\* ----------------------------------------------------------- clean_text
\* Characters with a compatibility decomposition are written by name: "nbsp"
\* (no-break space) becomes a space, "acute" (the spacing acute accent)
\* becomes a space and the combining accent "comb", "fi" (the ligature)
\* becomes "f" and "i"; "a" followed by "comb" composes to "a_acute".
Decompose(ch) ==
    CASE ch = "nbsp" -> <<" ">>
      [] ch = "acute" -> <<" ", "comb">>
      [] ch = "fi" -> <<"f", "i">>
      [] ch = "a_acute" -> <<"a", "comb">>
      [] OTHER -> <<ch>>

RECURSIVE DecomposeAll(_)
DecomposeAll(s) ==
    IF s = << >> THEN << >> ELSE Decompose(s[1]) \o DecomposeAll(Tail(s))

RECURSIVE ComposeAll(_)
ComposeAll(s) ==
    IF Len(s) < 2 THEN s
    ELSE IF s[1] = "a" /\ s[2] = "comb"
    THEN <<"a_acute">> \o ComposeAll(Tail(Tail(s)))
    ELSE <<s[1]>> \o ComposeAll(Tail(s))

\* unicodedata.normalize('NFKC', text)
NFKC(s) == ComposeAll(DecomposeAll(s))

\* re.sub(pattern + '+', repl, text) for a pattern that is a set of
\* characters: every maximal run of them is replaced by repl
RECURSIVE SubRuns(_, _, _)
SubRuns(chars, repl, s) ==
    IF s = << >> THEN << >>
    ELSE IF s[1] \in chars
    THEN IF Len(s) > 1 /\ s[2] \in chars
         THEN SubRuns(chars, repl, Tail(s))
         ELSE <<repl>> \o SubRuns(chars, repl, Tail(s))
    ELSE <<s[1]>> \o SubRuns(chars, repl, Tail(s))

\* text[:k]
SliceTo(s, k) ==
    IF k >= 0 THEN SubSeq(s, 1, IF k < Len(s) THEN k ELSE Len(s))
    ELSE SubSeq(s, 1, IF Len(s) + k > 0 THEN Len(s) + k ELSE 0)

\* the cut of clean_text, lines 35-37
Truncate(text, max_length) ==
    IF max_length # None /\ max_length # 0 /\ Len(text) > max_length
    THEN SliceTo(text, max_length - 3) \o <<".", ".", ".">>
    ELSE text

\* a cleaning that leaves the ends as they are
clean_text_no_strip(text, max_length) ==
    IF text = << >> THEN << >>
    ELSE Truncate(SubRuns({"\n"}, "\n",
                          SubRuns(Whitespace, " ", NFKC(text))),
                  max_length)

\* clean_text (utils/helpers.py)
clean_text(text, max_length) ==
    IF text = << >> THEN << >>
    ELSE Truncate(SubRuns({"\n"}, "\n",
                          Strip(SubRuns(Whitespace, " ", NFKC(text)))),
                  max_length)

\* ------------------------------------------------- search and synonyms
\* A record is represented by its display name.  A synonym table is the
\* dict of synonyms_dict in insertion order: entries of a main word and the
\* list of its variants, the main words distinct.

\* a rewrite that leaves every word as it is
normalize_query_keeps_words(query, synonyms) == Lower(query)

\* normalize_query (utils/helpers.py): reverse_synonyms maps a variant to the
\* main word of the last entry that lists it
normalize_query(query, synonyms) ==
    IF query = << >> \/ synonyms = << >> THEN Lower(query)
    ELSE LET Lists(word) ==
                 {i \in 1..Len(synonyms) :
                     \E k \in 1..Len(synonyms[i].syns) :
                         synonyms[i].syns[k] = word}
             Last(S) == CHOOSE i \in S : \A j \in S : j <= i
             Rewrite(word) ==
                 IF Lists(word) = {} THEN word
                 ELSE synonyms[Last(Lists(word))].main
             words == Split(Lower(query))
         IN Join([k \in 1..Len(words) |-> Rewrite(words[k])])

\* user_text of handle_text (main.py, line 417)
UserText(text) == Strip(Lower(text))

\* a tariff loop that goes on to the last match
RECURSIVE found_tariff_last(_, _, _)
found_tariff_last(user_text, tariffs, i) ==
    IF i > Len(tariffs) THEN 0
    ELSE LET name == Lower(tariffs[i])
             words == Split(name)
             later == found_tariff_last(user_text, tariffs, i + 1)
         IN IF later # 0 THEN later
            ELSE IF \/ IsSubstring(user_text, name)
                    \/ \E k \in 1..Len(words) : IsSubstring(words[k], user_text)
            THEN i
            ELSE 0

\* the tariff loop of handle_text (main.py, lines 433-438), from record i on:
\* the index of the record found, 0 for None
RECURSIVE found_tariff(_, _, _)
found_tariff(user_text, tariffs, i) ==
    IF i > Len(tariffs) THEN 0
    ELSE LET name == Lower(tariffs[i])
             words == Split(name)
         IN IF \/ IsSubstring(user_text, name)
               \/ \E k \in 1..Len(words) : IsSubstring(words[k], user_text)
            THEN i
            ELSE found_tariff(user_text, tariffs, i + 1)

\* the model loop of handle_text (main.py, lines 463-468)
RECURSIVE found_model(_, _, _)
found_model(user_text, models, i) ==
    IF i > Len(models) THEN 0
    ELSE LET name == Lower(models[i])
         IN IF IsSubstring(user_text, name) \/ IsSubstring(name, user_text)
            THEN i
            ELSE found_model(user_text, models, i + 1)

\* no search made
NoSearch == [query |-> << >>, records |-> << >>, table |-> << >>,
             op |-> "none", result |-> 0]

\* ---------------------------------------------------------- AIAssistant
\* The words of the source are spelled character by character; a Cyrillic
\* letter is written as its Latin transliteration after an underscore, so
\* that it differs from the Latin letter ("_a" is not "a"), and an upper-case
\* letter is written in upper case.

\* self.intent_patterns, in the order of the dict; every pattern is a
\* literal, so that re.search(pattern, text) is "pattern in text"
intent_patterns ==
    <<
      [intent |-> "greeting",
       patterns |->
         <<<<"_p", "_r", "_i", "_v", "_e", "_t">>,
           <<"_z", "_d", "_r", "_a", "_v", "_s", "_t", "_v", "_u", "_j">>,
           <<"_d", "_o", "_b", "_r", "_y", "_j">>,
           <<"h", "e", "l", "l", "o">>,
           <<"h", "i">>,
           <<"_n", "_a", "_ch", "_a", "_t", "_soft">>,
           <<"_z", "_d", "_r", "_a", "_v", "_s", "_t", "_v", "_u", "_j", "_t", "_e">>,
           <<"_d", "_o", "_b", "_r", "_o", "_e", " ", "_u", "_t", "_r", "_o">>,
           <<"_d", "_o", "_b", "_r", "_y", "_j", " ", "_d", "_e", "_n", "_soft">>,
           <<"_d", "_o", "_b", "_r", "_y", "_j", " ", "_v", "_e", "_ch", "_e", "_r">>>>],
      [intent |-> "farewell",
       patterns |->
         <<<<"_p", "_o", "_k", "_a">>,
           <<"_d", "_o", " ", "_s", "_v", "_i", "_d", "_a", "_n">>,
           <<"_s", "_p", "_a", "_s", "_i", "_b", "_o">>,
           <<"_b", "_l", "_a", "_g", "_o", "_d", "_a", "_r", "_yu">>,
           <<"g", "o", "o", "d", "b", "y", "e">>,
           <<"b", "y", "e">>,
           <<"_v", "_s", "_e", "_g", "_o", " ", "_d", "_o", "_b", "_r", "_o", "_g", "_o">>,
           <<"_d", "_o", " ", "_v", "_s", "_t", "_r", "_e", "_ch", "_i">>>>],
      [intent |-> "tariff_info",
       patterns |->
         <<<<"_t", "_a", "_r", "_i", "_f">>,
           <<"_p", "_a", "_k", "_e", "_t">>,
           <<"_u", "_s", "_l", "_u", "_g">>,
           <<"_c", "_e", "_n", "_a">>,
           <<"_s", "_t", "_o", "_i", "_t">>,
           <<"_s", "_t", "_o", "_i", "_m", "_o", "_s", "_t", "_soft">>,
           <<"_s", "_k", "_o", "_l", "_soft", "_k", "_o", " ", "_s", "_t", "_o", "_i", "_t">>,
           <<"_p", "_r", "_a", "_j", "_s">>,
           <<"_c", "_e", "_n", "_y">>,
           <<"_r", "_a", "_s", "_c", "_e", "_n", "_k", "_i">>>>],
      [intent |-> "model_info",
       patterns |->
         <<<<"_m", "_o", "_d", "_e", "_l", "_soft">>,
           <<"_d", "_e", "_v", "_u", "_sh", "_k", "_a">>,
           <<"_p", "_a", "_r", "_e", "_n", "_soft">>,
           <<"_r", "_o", "_s", "_t">>,
           <<"_p", "_a", "_r", "_a", "_m", "_e", "_t", "_r">>,
           <<"_t", "_i", "_p", " ", "_s", "_hard", "_e", "_m", "_k", "_i">>,
           <<"_m", "_o", "_d", "_e", "_l", "_i">>,
           <<"_a", "_k", "_t", "_r", "_i", "_s">>,
           <<"_a", "_k", "_t", "_e", "_r">>>>],
      [intent |-> "portfolio_request",
       patterns |->
         <<<<"_p", "_o", "_r", "_t", "_f", "_o", "_l", "_i", "_o">>,
           <<"_p", "_r", "_i", "_m", "_e", "_r">>,
           <<"_r", "_a", "_b", "_o", "_t">>,
           <<"_f", "_o", "_t", "_o">>,
           <<"_v", "_i", "_d", "_e", "_o">>,
           <<"_s", "_n", "_i", "_m", "_k">>,
           <<"_k", "_a", "_t", "_a", "_l", "_o", "_g">>,
           <<"_g", "_a", "_l", "_e", "_r", "_e", "_ya">>,
           <<"_p", "_r", "_i", "_m", "_e", "_r", "_y", " ", "_r", "_a", "_b", "_o", "_t">>>>],
      [intent |-> "schedule_request",
       patterns |->
         <<<<"_r", "_a", "_s", "_p", "_i", "_s", "_a", "_n">>,
           <<"_g", "_r", "_a", "_f", "_i", "_k">>,
           <<"_k", "_o", "_g", "_d", "_a">>,
           <<"_d", "_a", "_t", "_a">>,
           <<"_v", "_r", "_e", "_m", "_ya">>,
           <<"_s", "_v", "_o", "_b", "_o", "_d", "_n">>,
           <<"_z", "_a", "_n", "_ya", "_t">>,
           <<"_b", "_r", "_o", "_n", "_soft">>,
           <<"_z", "_a", "_p", "_i", "_s", "_a", "_t", "_soft", "_s", "_ya">>,
           <<"_d", "_o", "_s", "_t", "_u", "_p", "_e", "_n">>>>],
      [intent |-> "contact_request",
       patterns |->
         <<<<"_k", "_o", "_n", "_t", "_a", "_k", "_t">>,
           <<"_s", "_v", "_ya", "_z", "_soft">>,
           <<"_t", "_e", "_l", "_e", "_f", "_o", "_n">>,
           <<"_n", "_o", "_m", "_e", "_r">>,
           <<"e", "m", "a", "i", "l">>,
           <<"_p", "_o", "_ch", "_t", "_a">>,
           <<"_m", "_e", "_n", "_e", "_d", "_zh", "_e", "_r">>,
           <<"_a", "_d", "_m", "_i", "_n", "_i", "_s", "_t", "_r", "_a", "_t", "_o", "_r">>,
           <<"_p", "_o", "_m", "_o", "_sch", "_soft", " ", "_ch", "_e", "_l", "_o", "_v", "_e", "_k", "_a">>>>],
      [intent |-> "thanks",
       patterns |->
         <<<<"_s", "_p", "_a", "_s", "_i", "_b", "_o">>,
           <<"_b", "_l", "_a", "_g", "_o", "_d", "_a", "_r", "_yu">>,
           <<"_o", "_t", "_l", "_i", "_ch", "_n", "_o">>,
           <<"_s", "_u", "_p", "_e", "_r">>,
           <<"_k", "_l", "_a", "_s", "_s">>,
           <<"_z", "_a", "_m", "_e", "_ch", "_a", "_t", "_e", "_l", "_soft", "_n", "_o">>,
           <<"_h", "_o", "_r", "_o", "_sh", "_o">>,
           <<"_p", "_o", "_n", "_ya", "_t", "_n", "_o">>,
           <<"_ya", "_s", "_n", "_o">>>>]
    >>

\* tariff_words of detect_intent
tariff_words ==
    <<<<"_t", "_a", "_r", "_i", "_f">>,
      <<"_c", "_e", "_n", "_a">>,
      <<"_s", "_t", "_o", "_i", "_t">>,
      <<"_p", "_a", "_k", "_e", "_t">>,
      <<"_u", "_s", "_l", "_u", "_g">>,
      <<"v", "a", "t", "a">>,
      <<"p", "r", "o", "d">>,
      <<"_b", "_a", "_z", "_o", "_v">>>>

\* model_words of detect_intent
model_words ==
    <<<<"_m", "_o", "_d", "_e", "_l", "_soft">>,
      <<"_d", "_e", "_v", "_u", "_sh", "_k", "_a">>,
      <<"_p", "_a", "_r", "_e", "_n", "_soft">>,
      <<"_r", "_o", "_s", "_t">>,
      <<"_h", "_l", "_o", "_ya">>,
      <<"_ya", "_n", "_a">>,
      <<"_v", "_a", "_l", "_e", "_r">>,
      <<"_t", "_o", "_r", "_i">>>>

\* manager_keywords of should_call_manager
manager_keywords ==
    <<<<"_m", "_e", "_n", "_e", "_d", "_zh", "_e", "_r">>,
      <<"_ch", "_e", "_l", "_o", "_v", "_e", "_k">>,
      <<"_o", "_p", "_e", "_r", "_a", "_t", "_o", "_r">>,
      <<"_a", "_d", "_m", "_i", "_n">>,
      <<"_a", "_d", "_m", "_i", "_n", "_i", "_s", "_t", "_r", "_a", "_t", "_o", "_r">>,
      <<"_p", "_o", "_z", "_o", "_v", "_i", "_t", "_e">>,
      <<"_v", "_y", "_z", "_o", "_v", "_i", "_t", "_e">>,
      <<"_n", "_u", "_zh", "_e", "_n", " ", "_ch", "_e", "_l", "_o", "_v", "_e", "_k">>,
      <<"_zh", "_i", "_v", "_o", "_j">>,
      <<"_d", "_o", "_g", "_o", "_v", "_o", "_r">>,
      <<"_o", "_p", "_l", "_a", "_t", "_a">>,
      <<"_z", "_a", "_k", "_a", "_z">>,
      <<"_z", "_a", "_b", "_r", "_o", "_n", "_i", "_r", "_o", "_v", "_a", "_t", "_soft">>,
      <<"_z", "_a", "_p", "_i", "_s", "_a", "_t", "_soft", "_s", "_ya">>,
      <<"_zh", "_a", "_l", "_o", "_b", "_a">>,
      <<"_p", "_r", "_o", "_b", "_l", "_e", "_m", "_a">>,
      <<"_n", "_e", "_d", "_o", "_v", "_o", "_l", "_e", "_n">>,
      <<"_p", "_r", "_e", "_t", "_e", "_n", "_z", "_i", "_ya">>>>
\* the values detect_intent can return
Intents ==
    {"command", "unknown"} \cup
    {intent_patterns[g].intent : g \in 1..Len(intent_patterns)}

\* any(word in text for word in words)
AnyIn(words, text) == \E k \in 1..Len(words) : IsSubstring(words[k], text)

\* str.startswith
StartsWith(text, prefix) ==
    Len(text) >= Len(prefix) /\ SubSeq(text, 1, Len(prefix)) = prefix

\* a fallback that returns nothing when no keyword is found
keyword_fallback_no_default(text_lower) ==
    IF AnyIn(tariff_words, text_lower) THEN "tariff_info"
    ELSE IF AnyIn(model_words, text_lower) THEN "model_info"
    ELSE "None"

\* the fallback of detect_intent, lines 118-128
keyword_fallback(text_lower) ==
    IF AnyIn(tariff_words, text_lower) THEN "tariff_info"
    ELSE IF AnyIn(model_words, text_lower) THEN "model_info"
    ELSE "unknown"

\* a scan that goes on after a match and keeps the last group that matches
scan_patterns_last(text_lower, g) ==
    LET M == {h \in g..Len(intent_patterns) :
                 AnyIn(intent_patterns[h].patterns, text_lower)}
    IN IF M = {} THEN keyword_fallback(text_lower)
       ELSE intent_patterns[CHOOSE h \in M : \A k \in M : k <= h].intent

\* the loop of detect_intent over self.intent_patterns.items(), from group g
RECURSIVE scan_patterns(_, _)
scan_patterns(text_lower, g) ==
    IF g > Len(intent_patterns) THEN keyword_fallback(text_lower)
    ELSE IF AnyIn(intent_patterns[g].patterns, text_lower)
    THEN intent_patterns[g].intent
    ELSE scan_patterns(text_lower, g + 1)

\* AIAssistant.detect_intent
detect_intent(text) ==
    LET text_lower == Lower(text)
    IN IF StartsWith(text_lower, <<"/">>) THEN "command"
       ELSE scan_patterns(text_lower, 1)

\* a decision by the keywords alone
should_call_manager_keywords_only(query, intent) ==
    AnyIn(manager_keywords, Lower(query))

\* AIAssistant.should_call_manager
should_call_manager(query, intent) ==
    IF AnyIn(manager_keywords, Lower(query)) THEN TRUE
    ELSE IF intent \in {"contact_request"} THEN TRUE
    ELSE FALSE

\* no call of the assistant made
NoAiCall == [query |-> << >>, intent |-> "unknown", op |-> "none",
             detected |-> "unknown", call_manager |-> FALSE]

\* ------------------------------------------------------ GoogleSheetsClient
\* the sheets of SHEETS_CONFIG
Categories == {"tariffs", "models", "synonyms"}

\* self.cache.get(key, default)
cache_get(client, key, default) ==
    IF key \in DOMAIN client.cache THEN client.cache[key] ELSE default

\* no reload in flight
\* the two programs of the repository: the router of bot/handlers.py with its
\* reload_data, and main.py with its own handlers and load_google_sheets_data
Programs == {"handlers", "main"}

\* no reload has run yet; of a reload the loader keeps the fetches still
\* running (pending), those that failed, what load_all_data collects in
\* results, and the cache as it was when the reload began (before)
LoaderIdle ==
    [program |-> "handlers", pc |-> "idle", runs |-> 0, pending |-> {},
     failed |-> {}, results |-> << >>, before |-> << >>]

\* what a fetch of a sheet can bring: a list of records (tariffs, models) or
\* of synonym rows, each row the words of its synonyms cell
RecordLists == {<< >>, <<1>>, <<2, 1>>}
SynonymRows == {<< >>, << <<1, 2>> >>, << <<1, 3>>, <<4>> >>}
Sheets(cat) == IF cat = "synonyms" THEN SynonymRows ELSE RecordLists

\* fetch_sheet: a successful fetch stores the parsed rows under the sheet's
\* name; a failed one (status, timeout, exception, short body) stores nothing
fetch_sheet(client, cat, ok, data) ==
    IF ok THEN [client EXCEPT !.cache = (cat :> data) @@ @] ELSE client

\* _parse_synonyms: the first word of a cell is the key, the rest its variants
RECURSIVE parse_synonyms(_)
parse_synonyms(rows) ==
    IF rows = << >> THEN << >>
    ELSE LET words == rows[Len(rows)]
         IN (words[1] :> Tail(words))
                @@ parse_synonyms(SubSeq(rows, 1, Len(rows) - 1))

\* the cache as readers see it, per sheet
Snapshot(client) == [cat \in Categories |-> cache_get(client, cat, << >>)]

\* the FSM context of a user for whom no state is set
NoState == "None"

Idle == [pc |-> "idle", idx |-> 0, success |-> FALSE]

InitBotVars(db, ids, tariffs) ==
    /\ db_client = db
    /\ db_messages = [u \in Users |-> << >>]
    /\ manager_notifier = ManagerNotifierInit(ids)
    /\ gsheets_client = [cache |-> IF tariffs = 0 THEN << >>
                                   ELSE "tariffs" :> <<1>>]
    /\ data_loaded = (tariffs # 0)
    /\ loader = LoaderIdle
    /\ last_read = << >>
    /\ search = NoSearch
    /\ ai_assistant = NoAiCall
    /\ fsm_state = [u \in Users |-> NoState]
    /\ task = [u \in Users |-> Idle]
    /\ replies = << >>

Init ==
    /\ bot_controller = BotControllerInit
    /\ now = 0
    /\ ticks = 0
    /\ last_call = Call("init", None, None)
    /\ InitBotVars(TRUE, << >>, 0)

\* -------------------------------------------------- the controller's calls
InterventionsOk(m) ==
    m # None => bot_controller.stats.manager_interventions < MaxInterventions

IsBotEnabledForUser(u) ==
    /\ bot_controller' = is_bot_enabled_for_user(bot_controller, u, now)
    /\ last_call' = Call("is_bot_enabled_for_user", u,
                         is_bot_enabled_result(bot_controller, u))
    /\ UNCHANGED <<now, ticks>>
    /\ UNCHANGED botvars

EnableBotForUser(u, m) ==
    /\ InterventionsOk(m)
    /\ bot_controller' = enable_bot_for_user(bot_controller, u, m, now)
    /\ last_call' = Call("enable_bot_for_user", u, TRUE)
    /\ UNCHANGED <<now, ticks>>
    /\ UNCHANGED botvars

DisableBotForUser(u, m) ==
    /\ InterventionsOk(m)
    /\ bot_controller.stats.disabled_sessions < MaxDisabledCount
    /\ bot_controller' = disable_bot_for_user(bot_controller, u, m, now)
    /\ last_call' = Call("disable_bot_for_user", u, TRUE)
    /\ UNCHANGED <<now, ticks>>
    /\ UNCHANGED botvars

ToggleBotForUser(u, m) ==
    /\ InterventionsOk(m)
    /\ bot_controller.stats.disabled_sessions < MaxDisabledCount
    /\ bot_controller' = toggle_bot_for_user(bot_controller, u, m, now)
    /\ last_call' = Call("toggle_bot_for_user", u, TRUE)
    /\ UNCHANGED <<now, ticks>>
    /\ UNCHANGED botvars

RECURSIVE SumMessages(_, _)
SumMessages(sessions, us) ==
    IF us = {} THEN 0
    ELSE LET u == CHOOSE x \in us : TRUE
         IN sessions[u].message_count + SumMessages(sessions, us \ {u})

TotalMessages == SumMessages(bot_controller.user_sessions,
                             DOMAIN bot_controller.user_sessions)

RecordUserMessage(u) ==
    /\ TotalMessages < MaxMessages
    /\ bot_controller' = record_user_message(bot_controller, u, now)
    /\ last_call' = Call("record_user_message", u, None)
    /\ UNCHANGED <<now, ticks>>
    /\ UNCHANGED botvars

RecordAiResponse(u) ==
    /\ bot_controller.stats.ai_responses < MaxAiResponses
    /\ bot_controller' = record_ai_response(bot_controller, u)
    /\ last_call' = Call("record_ai_response", u, None)
    /\ UNCHANGED <<now, ticks>>
    /\ UNCHANGED botvars

StartTypingTimer(u) ==
    /\ bot_controller' = start_typing_timer(bot_controller, u, now)
    /\ last_call' = Call("start_typing_timer", u, None)
    /\ UNCHANGED <<now, ticks>>
    /\ UNCHANGED botvars

StopTypingTimer(u) ==
    /\ bot_controller' = stop_typing_timer(bot_controller, u)
    /\ last_call' = Call("stop_typing_timer", u, None)
    /\ UNCHANGED <<now, ticks>>
    /\ UNCHANGED botvars

CheckTypingTimeout(u) ==
    /\ bot_controller' = check_typing_timeout(bot_controller, u, now)
    /\ last_call' = Call("check_typing_timeout", u,
                         check_typing_timeout_result(bot_controller, u, now))
    /\ UNCHANGED <<now, ticks>>
    /\ UNCHANGED botvars

CheckMessageRateLimit(u) ==
    /\ last_call' = Call("check_message_rate_limit", u,
                         check_message_rate_limit(bot_controller, u))
    /\ UNCHANGED <<bot_controller, now, ticks>>
    /\ UNCHANGED botvars

CleanupInactiveSessions ==
    /\ bot_controller' = cleanup_inactive_sessions(bot_controller, now)
    /\ last_call' = Call("cleanup_inactive_sessions", None, None)
    /\ UNCHANGED <<now, ticks>>
    /\ UNCHANGED botvars

UpdateSetting(value) ==
    /\ bot_controller' = update_setting(bot_controller, value)
    /\ last_call' = Call("update_setting", None, TRUE)
    /\ UNCHANGED <<now, ticks>>
    /\ UNCHANGED botvars

\* the wall clock moves on between two calls
Tick(d) ==
    /\ ticks < MaxTicks
    /\ now' = now + d
    /\ ticks' = ticks + 1
    /\ last_call' = Call("tick", None, None)
    /\ UNCHANGED bot_controller
    /\ UNCHANGED botvars

\* The gate: enabling, disabling and querying users.
Next ==
    \/ \E u \in Users : IsBotEnabledForUser(u)
    \/ \E u \in Users, m \in ManagerArgs : EnableBotForUser(u, m)
    \/ \E u \in Users, m \in ManagerArgs : DisableBotForUser(u, m)
    \/ \E u \in Users, m \in ManagerArgs : ToggleBotForUser(u, m)
    \/ \E u \in Users : RecordUserMessage(u)
    \/ \E value \in BOOLEAN : UpdateSetting(value)

Spec == Init /\ [][Next]_vars

\* The session lifecycle: creation, disable, inactivity sweep and resume.
NextSessions ==
    \/ \E u \in Users : EnableBotForUser(u, None)
    \/ \E u \in Users : DisableBotForUser(u, None)
    \/ \E u \in Users : ToggleBotForUser(u, None)
    \/ \E u \in Users : RecordUserMessage(u)
    \/ CleanupInactiveSessions
    \/ \E d \in SessionTickSteps : Tick(d)

SpecSessions == Init /\ [][NextSessions]_vars

\* The bookkeeping of a message: counters and the typing timer.
NextTyping ==
    \/ \E u \in Users : RecordUserMessage(u)
    \/ \E u \in Users : RecordAiResponse(u)
    \/ \E u \in Users : StartTypingTimer(u)
    \/ \E u \in Users : StopTypingTimer(u)
    \/ \E u \in Users : CheckTypingTimeout(u)
    \/ \E u \in Users : CheckMessageRateLimit(u)
    \/ \E d \in TypingTickSteps : Tick(d)

SpecTyping == Init /\ [][NextTyping]_vars

\* ====================================================================
\* The message handlers (src/bot/handlers.py).  A handler runs atomically
\* from one await to the next; task[u].pc is the await it is suspended at.
\* Replies to the user are taken to be delivered.
\* ====================================================================
SetTask(u, pc, idx, success) ==
    task' = [task EXCEPT ![u] = [pc |-> pc, idx |-> idx, success |-> success]]

Done(u) == task' = [task EXCEPT ![u] = Idle]

\* db_client.save_message, when a database is configured
save_message(db, u, is_bot) ==
    IF db_client THEN [db EXCEPT ![u] = Append(@, is_bot)] ELSE db

\* the messages a handler may admit before the model's message cap is reached
AdmitOk(u) ==
    is_bot_enabled_result(bot_controller, u) => TotalMessages < MaxMessages

\* the handlers suspended at an await
InFlight == {u \in Users : task[u].pc # "idle"}

\* cmd_start, line 35: the FSM context is cleared first
CmdStart(u) ==
    /\ task[u].pc = "idle"
    /\ Cardinality(InFlight) < MaxInFlight
    /\ fsm_state' = [fsm_state EXCEPT ![u] = NoState]
    /\ replies' = << >>
    /\ SetTask(u, "start_gate", 0, FALSE)
    /\ last_call' = Call("cmd_start", u, None)
    /\ UNCHANGED <<bot_controller, now, ticks, db_client, db_messages,
                   manager_notifier, gsheets_client, loadvars>>

CmdStartGate_no_gate(u) ==
    /\ task[u].pc = "start_gate"
    /\ AdmitOk(u)
    /\ last_call' = Call("cmd_start.gate", u, None)
    /\ bot_controller' =
           record_user_message(
               enable_bot_for_user(
                   is_bot_enabled_for_user(bot_controller, u, now),
                   u, None, now),
               u, now)
    /\ db_messages' = save_message(db_messages, u, FALSE)
    /\ replies' = <<"welcome">>
    /\ SetTask(u, "start_set_state", 0, FALSE)
    /\ UNCHANGED <<now, ticks, db_client, manager_notifier, gsheets_client, loadvars,
                   fsm_state>>

\* cmd_start, lines 38-72: the gate, then the session and the welcome
CmdStartGate(u) ==
    /\ task[u].pc = "start_gate"
    /\ AdmitOk(u)
    /\ last_call' = Call("cmd_start.gate", u, None)
    /\ IF ~is_bot_enabled_result(bot_controller, u)
       THEN /\ bot_controller' = is_bot_enabled_for_user(bot_controller, u, now)
            /\ replies' = <<"blocked">>
            /\ Done(u)
            /\ UNCHANGED db_messages
       ELSE /\ bot_controller' =
                record_user_message(
                    enable_bot_for_user(
                        is_bot_enabled_for_user(bot_controller, u, now),
                        u, None, now),
                    u, now)
            /\ db_messages' = save_message(db_messages, u, FALSE)
            /\ replies' = <<"welcome">>
            /\ SetTask(u, "start_set_state", 0, FALSE)
    /\ UNCHANGED <<now, ticks, db_client, manager_notifier, gsheets_client, loadvars,
                   fsm_state>>

\* cmd_start, line 73
CmdStartSetState(u) ==
    /\ task[u].pc = "start_set_state"
    /\ fsm_state' = [fsm_state EXCEPT ![u] = "waiting_for_question"]
    /\ Done(u)
    /\ last_call' = Call("cmd_start.set_state", u, None)
    /\ replies' = << >>
    /\ UNCHANGED <<bot_controller, now, ticks, db_client, db_messages,
                   manager_notifier, gsheets_client, loadvars>>

\* what a text asks for: a human, a record that is found, a record that is
\* not found (the list is shown), or nothing the bot recognises
TextKinds == {"escalate", "record", "list", "other"}

\* handle_text_message, lines 362-407 and 445-516, up to its first await
HandleTextMessage(u, kind) ==
    /\ task[u].pc = "idle"
    /\ Cardinality(InFlight) < MaxInFlight
    /\ AdmitOk(u)
    /\ last_call' = Call("handle_text_message", u, kind)
    /\ IF ~is_bot_enabled_result(bot_controller, u)
       THEN /\ bot_controller' = is_bot_enabled_for_user(bot_controller, u, now)
            /\ replies' = <<"blocked">>
            /\ Done(u)
            /\ UNCHANGED <<db_messages, manager_notifier>>
       ELSE IF ~check_message_rate_limit(bot_controller, u)
       THEN \* lines 373-375
            /\ bot_controller' = is_bot_enabled_for_user(bot_controller, u, now)
            /\ replies' = <<"rate_limited">>
            /\ Done(u)
            /\ UNCHANGED <<db_messages, manager_notifier>>
       ELSE /\ bot_controller' =
                start_typing_timer(
                    record_user_message(
                        is_bot_enabled_for_user(bot_controller, u, now),
                        u, now),
                    u, now)
            /\ IF cache_get(gsheets_client, "tariffs", << >>) = << >>
               THEN \* lines 394-400
                    /\ db_messages' = save_message(db_messages, u, FALSE)
                    /\ replies' = <<"data_not_loaded">>
                    /\ Done(u)
                    /\ UNCHANGED manager_notifier
               ELSE IF kind = "escalate"
               THEN \* lines 403-407, call_manager, notify_manager to line 68
                    /\ db_messages' = save_message(db_messages, u, FALSE)
                    /\ IF ~manager_notifier.enabled
                          \/ manager_notifier.manager_ids = << >>
                       THEN /\ replies' = <<"manager_not_notified">>
                            /\ Done(u)
                            /\ UNCHANGED manager_notifier
                       ELSE /\ manager_notifier' =
                                [manager_notifier EXCEPT
                                    !.stats.total_calls = @ + 1,
                                    !.stats.last_notification = now]
                            /\ replies' = << >>
                            /\ SetTask(u, "notify_send", 1, FALSE)
               ELSE IF ~db_client
               THEN \* lines 410-418: the assistant answers
                    /\ replies' = << >>
                    /\ SetTask(u, "ai_process", 0, FALSE)
                    /\ UNCHANGED <<db_messages, manager_notifier>>
               ELSE \* line 415 raises NameError (AI_SETTINGS is not
                    \* imported), caught at 441: standard processing
                    /\ UNCHANGED manager_notifier
                    /\ IF kind = "record"
                       THEN /\ db_messages' =
                                save_message(save_message(db_messages, u, FALSE),
                                             u, TRUE)
                            /\ replies' = <<"record">>
                            /\ Done(u)
                       ELSE IF kind = "list"
                       THEN /\ db_messages' = save_message(db_messages, u, FALSE)
                            /\ replies' = <<"list">>
                            /\ Done(u)
                       ELSE /\ db_messages' = save_message(db_messages, u, FALSE)
                            /\ replies' = <<"not_understood">>
                            /\ SetTask(u, "unknown_sent", 0, FALSE)
    /\ UNCHANGED <<now, ticks, db_client, gsheets_client, loadvars, fsm_state>>

\* handle_text_message, line 421: the assistant's answer is sent
AiRespond(u) ==
    /\ task[u].pc = "ai_process"
    /\ replies' = <<"ai_response">>
    /\ SetTask(u, "ai_sent", 0, FALSE)
    /\ last_call' = Call("handle_text_message.answer", u, None)
    /\ UNCHANGED <<bot_controller, now, ticks, db_client, db_messages,
                   manager_notifier, gsheets_client, loadvars, fsm_state>>

\* handle_text_message, lines 424-439: the answer is recorded
AiRecord(u) ==
    /\ task[u].pc = "ai_sent"
    /\ bot_controller.stats.ai_responses < MaxAiResponses
    /\ bot_controller' =
           stop_typing_timer(record_ai_response(bot_controller, u), u)
    /\ db_messages' = save_message(db_messages, u, TRUE)
    /\ Done(u)
    /\ last_call' = Call("handle_text_message.record", u, None)
    /\ replies' = << >>
    /\ UNCHANGED <<now, ticks, db_client, manager_notifier, gsheets_client, loadvars,
                   fsm_state>>

\* handle_text_message, lines 518-529: after the "not understood" answer
UnknownCheckTimeout(u) ==
    /\ task[u].pc = "unknown_sent"
    /\ bot_controller' = check_typing_timeout(bot_controller, u, now)
    /\ Done(u)
    /\ last_call' = Call("handle_text_message.check_typing_timeout", u,
                         check_typing_timeout_result(bot_controller, u, now))
    /\ replies' = << >>
    /\ UNCHANGED <<now, ticks, db_client, db_messages, manager_notifier,
                   gsheets_client, loadvars, fsm_state>>

\* notify_manager, lines 68-88: one operator is paged; the send succeeds or
\* raises
NotifySend(u, ok) ==
    /\ task[u].pc = "notify_send"
    /\ LET ids == manager_notifier.manager_ids
           i == task[u].idx
           success == task[u].success \/ ok
       IN /\ manager_notifier' = page_manager(manager_notifier, u, ids[i], ok, now)
          /\ IF i < Len(ids)
             THEN /\ SetTask(u, "notify_send", i + 1, success)
                  /\ replies' = << >>
             ELSE IF success
             THEN /\ SetTask(u, "notify_confirm", 0, TRUE)
                  /\ replies' = << >>
             ELSE \* notify_manager returns False, call_manager line 353
                  /\ replies' = <<"manager_not_notified">>
                  /\ Done(u)
    /\ last_call' = Call("notify_manager.send", u, ok)
    /\ UNCHANGED <<bot_controller, now, ticks, db_client, db_messages,
                   gsheets_client, loadvars, fsm_state>>

\* notify_manager, lines 90-101, and call_manager, line 351: the notifier's
\* confirmation (which may fail to send) and the handler's confirmation
NotifyConfirm(u, ok) ==
    /\ task[u].pc = "notify_confirm"
    /\ replies' = (IF ok THEN <<"manager_notified">> ELSE << >>)
                       \o <<"manager_notified">>
    /\ Done(u)
    /\ last_call' = Call("notify_manager.confirm", u, ok)
    /\ UNCHANGED <<bot_controller, now, ticks, db_client, db_messages,
                   manager_notifier, gsheets_client, loadvars, fsm_state>>

ManagerConfigs == {<< >>, <<10>>}

\* an hour, longer than the session timeout and the typing timeout
LifetimeTickSteps == {2 * session_timeout_minutes * 60}

InitBot ==
    /\ bot_controller = BotControllerInit
    /\ now = 0
    /\ ticks = 0
    /\ last_call = Call("init", None, None)
    /\ \E db \in BOOLEAN, ids \in ManagerConfigs, tariffs \in {0, 1} :
           InitBotVars(db, ids, tariffs)

\* The bot: users write and an operator disables and enables them.  The
\* handlers run at one instant of the clock; what depends on elapsed time is
\* the subject of SpecSessions, SpecTyping and SpecLifetime.
NextBot ==
    \/ \E u \in Users : CmdStart(u)
    \/ \E u \in Users : CmdStartGate(u)
    \/ \E u \in Users : CmdStartSetState(u)
    \/ \E u \in Users, kind \in TextKinds : HandleTextMessage(u, kind)
    \/ \E u \in Users : AiRespond(u)
    \/ \E u \in Users : AiRecord(u)
    \/ \E u \in Users : UnknownCheckTimeout(u)
    \/ \E u \in Users, ok \in BOOLEAN : NotifySend(u, ok)
    \/ \E u \in Users, ok \in BOOLEAN : NotifyConfirm(u, ok)
    \/ \E u \in Users : DisableBotForUser(u, None)
    \/ \E u \in Users : EnableBotForUser(u, None)

SpecBot == InitBot /\ [][NextBot]_vars

\* handle_text_message, lines 367-380, as the controller sees it: a message
\* that passes the gate is recorded and starts the typing timer
UserMessage(u) ==
    /\ TotalMessages < MaxLifetimeMessages
    /\ is_bot_enabled_result(bot_controller, u)
    /\ bot_controller' =
           start_typing_timer(
               record_user_message(
                   is_bot_enabled_for_user(bot_controller, u, now), u, now),
               u, now)
    /\ last_call' = Call("user_message", u, None)
    /\ UNCHANGED <<now, ticks>>
    /\ UNCHANGED botvars

\* handle_text_message, lines 434-437, as the controller sees it: the
\* assistant's answer is counted and stops the typing timer
AiAnswer(u) ==
    /\ bot_controller.stats.ai_responses < MaxAiResponses
    /\ bot_controller' =
           stop_typing_timer(record_ai_response(bot_controller, u), u)
    /\ last_call' = Call("ai_answer", u, None)
    /\ UNCHANGED <<now, ticks>>
    /\ UNCHANGED botvars

\* The life of the sessions: the controller as the handlers, an operator and
\* the sweep drive it, over a clock that steps by an hour.
NextLifetime ==
    \/ \E u \in Users : UserMessage(u)
    \/ \E u \in Users : AiAnswer(u)
    \/ \E u \in Users : CheckTypingTimeout(u)
    \/ \E u \in Users : DisableBotForUser(u, None)
    \/ \E u \in Users : EnableBotForUser(u, None)
    \/ CleanupInactiveSessions
    \/ \E d \in LifetimeTickSteps : ticks < MaxLifetimeTicks /\ Tick(d)

SpecLifetime == Init /\ [][NextLifetime]_vars

\* ====================================================================
\* The notifier: users call for a manager with /manager, managers mark the
\* notifications handled, old notifications are cleaned up, time passes.
\* ====================================================================
\* the manager_id arguments of mark_notification_handled
MarkArgs == {None, 10, 11}

\* between two calls no time passes, a few seconds, or a day
NotifierTickSteps == {10, SecondsPerDay}

\* cmd_manager and call_manager, lines 157-159 and 325-349, with
\* notify_manager to line 68: the guard, the counters, then the send loop
CmdManager(u) ==
    /\ task[u].pc = "idle"
    /\ Cardinality(InFlight) < MaxInFlight
    /\ manager_notifier.stats.total_calls < MaxCalls
    /\ IF ~manager_notifier.enabled \/ manager_notifier.manager_ids = << >>
       THEN \* notify_manager returns False, call_manager line 353
            /\ replies' = <<"manager_not_notified">>
            /\ Done(u)
            /\ UNCHANGED manager_notifier
       ELSE /\ manager_notifier' =
                [manager_notifier EXCEPT
                    !.stats.total_calls = @ + 1,
                    !.stats.last_notification = now]
            /\ replies' = << >>
            /\ SetTask(u, "notify_send", 1, FALSE)
    /\ last_call' = Call("call_manager", u, None)
    /\ UNCHANGED <<bot_controller, now, ticks, db_client, db_messages,
                   gsheets_client, loadvars, fsm_state>>

MarkNotificationHandled(u, m) ==
    /\ manager_notifier' = mark_notification_handled(manager_notifier, u, m, now)
    /\ last_call' = [op |-> "mark_notification_handled", user |-> u,
                     ret |-> mark_notification_handled_result(manager_notifier,
                                                              u, m),
                     manager_id |-> m]
    /\ UNCHANGED <<bot_controller, now, ticks, db_client, db_messages,
                   gsheets_client, loadvars, fsm_state, task, replies>>

CleanupOldNotifications ==
    /\ manager_notifier' =
           cleanup_old_notifications(manager_notifier, DefaultCleanupHours, now)
    /\ last_call' = Call("cleanup_old_notifications", None, None)
    /\ UNCHANGED <<bot_controller, now, ticks, db_client, db_messages,
                   gsheets_client, loadvars, fsm_state, task, replies>>

InitNotifier ==
    /\ bot_controller = BotControllerInit
    /\ now = 0
    /\ ticks = 0
    /\ last_call = Call("init", None, None)
    /\ \E ids \in {<< >>, <<10, 11>>} : InitBotVars(TRUE, ids, 1)

NextNotifier ==
    \/ \E u \in Users : CmdManager(u)
    \/ \E u \in Users, ok \in BOOLEAN : NotifySend(u, ok)
    \/ \E u \in Users, ok \in BOOLEAN : NotifyConfirm(u, ok)
    \/ \E u \in Users, m \in MarkArgs : MarkNotificationHandled(u, m)
    \/ CleanupOldNotifications
    \/ \E d \in NotifierTickSteps : ticks < MaxNotifierTicks /\ Tick(d)

SpecNotifier == InitNotifier /\ [][NextNotifier]_vars

\* The calls for a manager alone, at one instant of the clock.
NextPaging ==
    \/ \E u \in Users : CmdManager(u)
    \/ \E u \in Users, ok \in BOOLEAN : NotifySend(u, ok)
    \/ \E u \in Users, ok \in BOOLEAN : NotifyConfirm(u, ok)

SpecPaging == InitNotifier /\ [][NextPaging]_vars

\* The calls for a manager and the operators' marking, at one instant of
\* the clock.
NextMarking ==
    \/ \E u \in Users : CmdManager(u)
    \/ \E u \in Users, ok \in BOOLEAN : NotifySend(u, ok)
    \/ \E u \in Users, ok \in BOOLEAN : NotifyConfirm(u, ok)
    \/ \E u \in Users, m \in MarkArgs : MarkNotificationHandled(u, m)

SpecMarking == InitNotifier /\ [][NextMarking]_vars

\* ====================================================================
\* The catalog cache (src/data/gsheets.py, reload_data of bot/handlers.py,
\* load_google_sheets_data and the handlers of main.py).  The fetches of a
\* reload run as concurrent tasks; queries read the cache in between.
\* ====================================================================
CacheFrame ==
    UNCHANGED <<bot_controller, now, ticks, db_client, db_messages,
                manager_notifier, fsm_state, task, search, ai_assistant>>

\* reload_data, lines 245-255, or cmd_reload of main.py with
\* load_google_sheets_data, lines 139-162, up to the await in load_all_data:
\* main.py makes a new client first; the fetch tasks are created
ReloadStart ==
    /\ loader.pc = "idle"
    /\ loader.runs < MaxReloads
    /\ gsheets_client' = IF loader.program = "main"
                         THEN [cache |-> << >>]
                         ELSE gsheets_client
    /\ loader' = [loader EXCEPT !.pc = "loading",
                                !.runs = @ + 1,
                                !.pending = Categories,
                                !.failed = {},
                                !.results = << >>,
                                !.before = Snapshot(gsheets_client)]
    /\ replies' = <<"loading">>
    /\ last_call' = Call("reload", None, None)
    /\ UNCHANGED <<data_loaded, last_read>>
    /\ CacheFrame

\* fetch_sheet, run as a task of load_all_data
FetchSheet(cat, ok, data) ==
    /\ loader.pc = "loading"
    /\ cat \in loader.pending
    /\ gsheets_client' = fetch_sheet(gsheets_client, cat, ok, data)
    /\ loader' = [loader EXCEPT
                     !.pending = @ \ {cat},
                     !.failed = IF ok THEN @ ELSE @ \cup {cat},
                     !.results = (cat :> IF ok THEN data ELSE << >>) @@ @]
    /\ last_call' = Call("fetch_sheet", None, ok)
    /\ UNCHANGED <<data_loaded, last_read, replies>>
    /\ CacheFrame

\* load_all_data returns its results, with synonyms_dict among them, and the
\* reload reports: reload_data, lines 255-275; load_google_sheets_data, lines
\* 164-171, with cmd_reload
ReloadFinish ==
    /\ loader.pc = "loading"
    /\ loader.pending = {}
    /\ LET results == ("synonyms_dict" :>
                           parse_synonyms(loader.results["synonyms"]))
                          @@ loader.results
       IN /\ loader' = [loader EXCEPT !.pc = "idle", !.results = results]
          /\ data_loaded' = IF loader.program = "main"
                            THEN (DOMAIN results # {}) \/ data_loaded
                            ELSE data_loaded
          /\ replies' = IF loader.program = "main" /\ DOMAIN results = {}
                        THEN <<"load_failed">>
                        ELSE <<"loaded">>
    /\ last_call' = Call("reload.finish", None, None)
    /\ UNCHANGED <<gsheets_client, last_read>>
    /\ CacheFrame

\* the sheets a user can ask about
Askable == {"tariffs", "models"}

\* a query of a user about a sheet.  bot/handlers.py: handle_text_message,
\* lines 394-400 and 450-497, with show_tariffs and show_models;
\* main.py: handle_text, lines 415-470, with cmd_tariffs and cmd_models
Query(cat) ==
    /\ LET records == cache_get(gsheets_client, cat, << >>)
           synonyms == cache_get(gsheets_client, "synonyms_dict", << >>)
       IN /\ last_read' = [key |-> cat, records |-> records,
                           synonyms_dict |-> synonyms]
          /\ replies' =
                 IF loader.program = "main"
                 THEN IF ~data_loaded THEN <<"data_not_loaded">>
                      ELSE IF records = << >> THEN <<"not_found_in_sheet">>
                      ELSE <<"answer">>
                 ELSE IF cache_get(gsheets_client, "tariffs", << >>) = << >>
                         \/ records = << >>
                      THEN <<"data_not_loaded">>
                      ELSE <<"answer">>
    /\ last_call' = Call("query", None, None)
    /\ UNCHANGED <<gsheets_client, data_loaded, loader>>
    /\ CacheFrame

InitCache ==
    /\ bot_controller = BotControllerInit
    /\ now = 0
    /\ ticks = 0
    /\ last_call = Call("init", None, None)
    /\ db_client = TRUE
    /\ db_messages = [u \in Users |-> << >>]
    /\ manager_notifier = ManagerNotifierInit(<< >>)
    /\ fsm_state = [u \in Users |-> NoState]
    /\ task = [u \in Users |-> Idle]
    /\ replies = << >>
    /\ gsheets_client = [cache |-> << >>]
    /\ data_loaded = FALSE
    /\ last_read = << >>
    /\ search = NoSearch
    /\ ai_assistant = NoAiCall
    /\ \E p \in Programs : loader = [LoaderIdle EXCEPT !.program = p]

NextCache ==
    \/ ReloadStart
    \/ \E cat \in Categories, ok \in BOOLEAN :
           \E data \in Sheets(cat) : FetchSheet(cat, ok, data)
    \/ ReloadFinish
    \/ \E cat \in Askable : Query(cat)

SpecCache == InitCache /\ [][NextCache]_vars

\* ====================================================================
\* Search and synonym rewriting as functions of a text, a record list and a
\* synonym table (handle_text of main.py, normalize_query of
\* utils/helpers.py).
\* ====================================================================
Names == {<<"a">>, <<"a", "b">>, <<"b", " ", "a">>, <<"A">>}

NameLists == UNION {[1..k -> Names] : k \in 0..MaxRecords}

Tables ==
    {<< >>,
     << [main |-> <<"a">>, syns |-> <<<<"b">>>>] >>,
     << [main |-> <<"b">>, syns |-> << >>] >>,
     << [main |-> <<"a">>, syns |-> <<<<"b">>>>],
        [main |-> <<"a", "b">>, syns |-> <<<<"b">>, <<"b", "a">>>>] >>,
     << [main |-> <<"a">>, syns |-> <<<<"b">>>>],
        [main |-> <<"b">>, syns |-> <<<<"a", "b">>>>] >>}

InitSearch ==
    /\ bot_controller = BotControllerInit
    /\ now = 0
    /\ ticks = 0
    /\ last_call = Call("init", None, None)
    /\ db_client = TRUE
    /\ db_messages = [u \in Users |-> << >>]
    /\ manager_notifier = ManagerNotifierInit(<< >>)
    /\ fsm_state = [u \in Users |-> NoState]
    /\ task = [u \in Users |-> Idle]
    /\ replies = << >>
    /\ gsheets_client = [cache |-> << >>]
    /\ data_loaded = FALSE
    /\ loader = LoaderIdle
    /\ last_read = << >>
    /\ ai_assistant = NoAiCall
    /\ \E q \in Texts(MaxTextLen), r \in NameLists, t \in Tables :
           search = [NoSearch EXCEPT !.query = q, !.records = r, !.table = t]

SearchFrame ==
    UNCHANGED <<bot_controller, now, ticks, last_call, db_client, db_messages,
                manager_notifier, gsheets_client, data_loaded, loader,
                last_read, ai_assistant, fsm_state, task, replies>>

FoundTariff ==
    /\ search' = [search EXCEPT
                     !.op = "found_tariff",
                     !.result = found_tariff(UserText(search.query),
                                             search.records, 1)]
    /\ SearchFrame

FoundModel ==
    /\ search' = [search EXCEPT
                     !.op = "found_model",
                     !.result = found_model(UserText(search.query),
                                            search.records, 1)]
    /\ SearchFrame

NormalizeQuery ==
    /\ search' = [search EXCEPT
                     !.op = "normalize_query",
                     !.result = normalize_query(search.query, search.table)]
    /\ SearchFrame

NextSearch ==
    \/ FoundTariff
    \/ FoundModel
    \/ NormalizeQuery

SpecSearch == InitSearch /\ [][NextSearch]_vars

\* ====================================================================
\* clean_text as a function of a text, applied to a text and to its own
\* result (utils/helpers.py).
\* ====================================================================
CleanChars == {"a", " ", "\n", "nbsp", "acute", "comb", "a_acute", "fi"}

CleanTexts == UNION {[1..k -> CleanChars] : k \in 0..MaxTextLen}

InitClean ==
    /\ bot_controller = BotControllerInit
    /\ now = 0
    /\ ticks = 0
    /\ last_call = Call("init", None, None)
    /\ db_client = TRUE
    /\ db_messages = [u \in Users |-> << >>]
    /\ manager_notifier = ManagerNotifierInit(<< >>)
    /\ fsm_state = [u \in Users |-> NoState]
    /\ task = [u \in Users |-> Idle]
    /\ replies = << >>
    /\ gsheets_client = [cache |-> << >>]
    /\ data_loaded = FALSE
    /\ loader = LoaderIdle
    /\ last_read = << >>
    /\ ai_assistant = NoAiCall
    /\ \E q \in CleanTexts : search = [NoSearch EXCEPT !.query = q]

\* clean_text(text)
CleanText ==
    /\ search.op = "none"
    /\ search' = [search EXCEPT
                     !.op = "clean_text",
                     !.result = clean_text(search.query, None)]
    /\ SearchFrame

\* clean_text applied to what clean_text returned
CleanAgain ==
    /\ search.op = "clean_text"
    /\ search' = [search EXCEPT
                     !.query = search.result,
                     !.result = clean_text(search.result, None)]
    /\ SearchFrame

NextClean ==
    \/ CleanText
    \/ CleanAgain

SpecClean == InitClean /\ [][NextClean]_vars

\* ====================================================================
\* The AIAssistant's classification and escalation decision as functions of
\* a text and an intent (detect_intent and should_call_manager of
\* data/ai_assistant.py, called by handle_text_message at lines 404-405).
\* ====================================================================
\* words of user messages: a command, words matching patterns of several
\* groups, words only in the fallback lists, escalation keywords, words in
\* upper case and a word matching nothing
Vocabulary ==
    {<<"/", "s", "t", "a", "r", "t">>,
     <<"_P", "_r", "_i", "_v", "_e", "_t">>,
     <<"_T", "_A", "_R", "_I", "_F", "_Y">>,
     <<"_p", "_o", "_k", "_a", "_zh", "_i">>,
     <<"_m", "_e", "_n", "_e", "_d", "_zh", "_e", "_r", "_a">>,
     <<"_o", "_p", "_l", "_a", "_t", "_a">>,
     <<"_h", "_l", "_o", "_ya">>,
     <<"v", "a", "t", "a">>,
     <<"_s", "_p", "_a", "_s", "_i", "_b", "_o">>,
     <<"_o", "_k">>}

\* the texts of at most MaxWords words
Messages ==
    {Join(ws) : ws \in UNION {[1..k -> Vocabulary] : k \in 0..MaxWords}}

InitIntent ==
    /\ bot_controller = BotControllerInit
    /\ now = 0
    /\ ticks = 0
    /\ last_call = Call("init", None, None)
    /\ db_client = TRUE
    /\ db_messages = [u \in Users |-> << >>]
    /\ manager_notifier = ManagerNotifierInit(<< >>)
    /\ fsm_state = [u \in Users |-> NoState]
    /\ task = [u \in Users |-> Idle]
    /\ replies = << >>
    /\ gsheets_client = [cache |-> << >>]
    /\ data_loaded = FALSE
    /\ loader = LoaderIdle
    /\ last_read = << >>
    /\ search = NoSearch
    /\ \E q \in Messages : ai_assistant = [NoAiCall EXCEPT !.query = q]

IntentFrame ==
    UNCHANGED <<bot_controller, now, ticks, last_call, db_client, db_messages,
                manager_notifier, gsheets_client, data_loaded, loader,
                last_read, search, fsm_state, task, replies>>

\* intent = ai_assistant.detect_intent(user_text)
DetectIntent ==
    /\ ai_assistant' =
           [ai_assistant EXCEPT
               !.op = "detect_intent",
               !.detected = detect_intent(ai_assistant.query),
               !.intent = detect_intent(ai_assistant.query)]
    /\ IntentFrame

\* ai_assistant.should_call_manager(query, intent), for any intent
ShouldCallManager(intent) ==
    /\ ai_assistant' =
           [ai_assistant EXCEPT
               !.op = "should_call_manager",
               !.intent = intent,
               !.call_manager = should_call_manager(ai_assistant.query,
                                                    intent)]
    /\ IntentFrame

NextIntent ==
    \/ DetectIntent
    \/ \E intent \in Intents : ShouldCallManager(intent)

SpecIntent == InitIntent /\ [][NextIntent]_vars

\* ====================================================================
\* Properties of the gate (Spec)
\* ====================================================================
Sessions == bot_controller.user_sessions
Known(c) == c.enabled_users \cup c.disabled_users

\* C1: after any sequence of enable, disable, toggle and is_bot_enabled calls,
\* with or without an operator id, no user is in both the enabled set and the
\* disabled set.
C1_MutuallyExclusive ==
    bot_controller.enabled_users \cap bot_controller.disabled_users = {}

\* a user who was disabled with a session and has been enabled again
C1_Witness ==
    \E u \in Users :
        /\ last_call.op \in {"enable_bot_for_user", "toggle_bot_for_user"}
        /\ last_call.user = u
        /\ u \in bot_controller.enabled_users
        /\ bot_controller.stats.manager_interventions > 0
        /\ \E v \in Users \ {u} : v \in bot_controller.disabled_users

\* C2: is_bot_enabled_for_user(u) returns false for a disabled user, true for
\* an enabled user, and for a never-seen user the auto_enable_new_users
\* setting; with the setting on the user is in the enabled set afterwards,
\* with the setting off the user stays in neither set.
C2_GateQuery ==
    [][\A u \in Users :
        (last_call'.op = "is_bot_enabled_for_user" /\ last_call'.user = u) =>
            /\ u \in bot_controller.disabled_users => last_call'.ret = FALSE
            /\ u \in bot_controller.enabled_users => last_call'.ret = TRUE
            /\ u \notin Known(bot_controller) =>
                /\ last_call'.ret = bot_controller.auto_enable_new_users
                /\ bot_controller.auto_enable_new_users =>
                       u \in bot_controller'.enabled_users
                /\ ~bot_controller.auto_enable_new_users =>
                       u \notin Known(bot_controller')]_vars

\* a query for a never-seen user answered with auto-enable switched off
C2_Witness ==
    \E u \in Users :
        /\ last_call = Call("is_bot_enabled_for_user", u, FALSE)
        /\ u \notin Known(bot_controller)
        /\ ~bot_controller.auto_enable_new_users

\* C4: record_user_message(u) for a user without a session creates an active
\* session with message_count = 1; disable_bot_for_user(u) then makes the
\* session inactive and the gate query false; enable_bot_for_user(u) makes
\* the session active again and the gate query true.
C4_SessionLifecycle ==
    [][\A u \in Users :
        /\ (/\ last_call'.op = "record_user_message"
            /\ last_call'.user = u
            /\ u \notin DOMAIN bot_controller.user_sessions)
           => /\ u \in DOMAIN bot_controller'.user_sessions
              /\ bot_controller'.user_sessions[u].active
              /\ bot_controller'.user_sessions[u].message_count = 1
        /\ (/\ last_call'.op = "disable_bot_for_user"
            /\ last_call'.user = u
            /\ u \in DOMAIN bot_controller.user_sessions)
           => /\ ~bot_controller'.user_sessions[u].active
              /\ is_bot_enabled_result(bot_controller', u) = FALSE
        /\ (/\ last_call'.op = "enable_bot_for_user"
            /\ last_call'.user = u
            /\ u \in DOMAIN bot_controller.user_sessions)
           => /\ bot_controller'.user_sessions[u].active
              /\ is_bot_enabled_result(bot_controller', u) = TRUE]_vars

\* the middle of the lifecycle: the session created by one message has just
\* been closed by a disable
C4_Witness ==
    \E u \in Users :
        /\ last_call = Call("disable_bot_for_user", u, TRUE)
        /\ u \in DOMAIN Sessions
        /\ ~Sessions[u].active
        /\ Sessions[u].message_count = 1
        /\ u \in bot_controller.disabled_users

\* ====================================================================
\* Properties of the session lifecycle (SpecSessions)
\* ====================================================================
ActiveSessions == {u \in DOMAIN Sessions : Sessions[u].active}
InactiveSessions == {u \in DOMAIN Sessions : ~Sessions[u].active}

\* C5: stats.active_sessions equals the number of sessions whose active flag
\* is true, in every reachable state.
C5_ActiveCounterMatches ==
    bot_controller.stats.active_sessions = Cardinality(ActiveSessions)

\* C6: stats.disabled_sessions equals the number of sessions whose active
\* flag is false, in every reachable state.
C6_InactiveCounterMatches ==
    bot_controller.stats.disabled_sessions = Cardinality(InactiveSessions)

\* the sessions whose time since last_activity, in whole minutes, exceeds
\* session_timeout_minutes at time t
Expired(c, t) ==
    {u \in DOMAIN c.user_sessions :
        /\ c.user_sessions[u].active
        /\ (t - c.user_sessions[u].last_activity) \div 60
               > session_timeout_minutes}

\* C10: cleanup_inactive_sessions marks inactive exactly the active sessions
\* whose time since last_activity exceeds session_timeout_minutes, decrements
\* active_sessions once per such session, and leaves every other session and
\* the enabled and disabled sets unchanged.
C10_SweepExactlyExpired ==
    [][last_call'.op = "cleanup_inactive_sessions" =>
        /\ DOMAIN bot_controller'.user_sessions = DOMAIN Sessions
        /\ \A u \in DOMAIN Sessions :
               bot_controller'.user_sessions[u] =
                   IF u \in Expired(bot_controller, now)
                   THEN [Sessions[u] EXCEPT !.active = FALSE]
                   ELSE Sessions[u]
        /\ bot_controller'.stats.active_sessions =
               bot_controller.stats.active_sessions
                   - Cardinality(Expired(bot_controller, now))
        /\ bot_controller'.enabled_users = bot_controller.enabled_users
        /\ bot_controller'.disabled_users = bot_controller.disabled_users]_vars

\* ====================================================================
\* Properties of the typing timer (SpecTyping)
\* ====================================================================
\* C8: check_typing_timeout(u) returns true if and only if u's session has a
\* typing-start timestamp and the time elapsed since it exceeds
\* typing_timeout_seconds, for every elapsed duration.
C8_TimeoutIffElapsed ==
    [][\A u \in Users :
        (last_call'.op = "check_typing_timeout" /\ last_call'.user = u) =>
            (last_call'.ret = TRUE <=>
                /\ u \in DOMAIN Sessions
                /\ Sessions[u].typing_started # None
                /\ now - Sessions[u].typing_started
                       > typing_timeout_seconds)]_vars

\* C9: a check right after start_typing_timer returns false and changes
\* nothing; a check that returns true clears the timer and adds exactly one
\* to typing_timeouts; the check right after it returns false and changes
\* nothing.
C9_TimerResets ==
    [][\A u \in Users :
        (last_call'.op = "check_typing_timeout" /\ last_call'.user = u) =>
            /\ last_call = Call("start_typing_timer", u, None) =>
                   /\ last_call'.ret = FALSE
                   /\ bot_controller' = bot_controller
            /\ last_call'.ret = TRUE =>
                   bot_controller' =
                       [bot_controller EXCEPT
                           !.user_sessions[u].typing_started = None,
                           !.user_sessions[u].typing_timeouts = @ + 1]
            /\ last_call = Call("check_typing_timeout", u, TRUE) =>
                   /\ last_call'.ret = FALSE
                   /\ bot_controller' = bot_controller]_vars

\* the check made right after a check that fired: the timer is cleared and
\* the timeout was counted once
C9_Witness ==
    \E u \in Users :
        /\ last_call = Call("check_typing_timeout", u, FALSE)
        /\ u \in DOMAIN Sessions
        /\ Sessions[u].typing_started = None
        /\ Sessions[u].typing_timeouts = 1

\* ====================================================================
\* Properties of the handlers (SpecBot)
\* ====================================================================
\* the steps of cmd_start and handle_text_message that hold the gate
GateSteps == {"handle_text_message", "cmd_start.gate"}

\* everything but the FSM contexts and the reply is as it was
BlockedFrame ==
    /\ bot_controller' = bot_controller
    /\ db_messages' = db_messages
    /\ manager_notifier' = manager_notifier
    /\ db_client' = db_client
    /\ gsheets_client' = gsheets_client

\* C3 as stated: a text message or /start from a user in the disabled set is
\* answered with the blocked notice and changes nothing else, at any step of
\* the handler: no session counter, typing timer, history entry, pending
\* notification, membership or conversation state changes.
C3_GateBeforeAnything ==
    [][\A u \in Users :
        (/\ last_call'.user = u
         /\ last_call'.op \in GateSteps \cup {"cmd_start"}
         /\ u \in bot_controller.disabled_users)
        => /\ BlockedFrame
           /\ fsm_state' = fsm_state
           /\ last_call'.op \in GateSteps => replies' = <<"blocked">>]_vars

\* C3, amended: the gate step of a text message or of /start from a user in
\* the disabled set sends the blocked notice, ends the handler and changes
\* nothing else; the step of /start that precedes its gate clears that user's
\* conversation state and changes nothing else.
C3_GateFrame ==
    [][\A u \in Users :
        (/\ last_call'.user = u
         /\ u \in bot_controller.disabled_users)
        => /\ last_call'.op \in GateSteps =>
                  /\ BlockedFrame
                  /\ fsm_state' = fsm_state
                  /\ replies' = <<"blocked">>
                  /\ task'[u] = Idle
           /\ last_call'.op = "cmd_start" =>
                  /\ BlockedFrame
                  /\ fsm_state' = [fsm_state EXCEPT ![u] = NoState]
                  /\ replies' = << >>]_vars

\* /start from a disabled user who has a session with a message and a running
\* typing timer has just been answered with the blocked notice
C3_Witness ==
    \E u \in Users :
        /\ last_call.op = "cmd_start.gate"
        /\ last_call.user = u
        /\ replies = <<"blocked">>
        /\ u \in bot_controller.disabled_users
        /\ u \in DOMAIN Sessions
        /\ Sessions[u].message_count > 0
        /\ Sessions[u].typing_started # None

\* ====================================================================
\* Properties of the sessions' lifetime (SpecLifetime)
\* ====================================================================
\* C7: a session, once created, exists in every later state;
\* stats.total_sessions equals the number of sessions; and no step, disable,
\* sweep and resume included, decreases a session's message_count,
\* ai_responses or typing_timeouts.
C7_SessionsPersist ==
    [][/\ DOMAIN Sessions \subseteq DOMAIN bot_controller'.user_sessions
       /\ bot_controller'.stats.total_sessions =
              Cardinality(DOMAIN bot_controller'.user_sessions)
       /\ \A u \in DOMAIN Sessions :
              /\ bot_controller'.user_sessions[u].message_count
                     >= Sessions[u].message_count
              /\ bot_controller'.user_sessions[u].ai_responses
                     >= Sessions[u].ai_responses
              /\ bot_controller'.user_sessions[u].typing_timeouts
                     >= Sessions[u].typing_timeouts]_vars

\* a session that was closed by a disable and resumed has now been closed by
\* the sweep, with its three counters above zero
C7_Witness ==
    \E u \in Users :
        /\ last_call.op = "cleanup_inactive_sessions"
        /\ u \in DOMAIN Sessions
        /\ ~Sessions[u].active
        /\ u \in bot_controller.enabled_users
        /\ bot_controller.stats.disabled_sessions > 0
        /\ Sessions[u].message_count > 0
        /\ Sessions[u].ai_responses > 0
        /\ Sessions[u].typing_timeouts > 0

\* the text handler has just taken in a message of user u that asks for kind
\* and that the gate admits
Admitted(u, kind) ==
    /\ last_call'.op = "handle_text_message"
    /\ last_call'.user = u
    /\ last_call'.ret = kind
    /\ is_bot_enabled_result(bot_controller, u)

\* C11: an admitted message whose text satisfies the escalation policy is
\* handed to call_manager, whatever the state of the catalog cache: the
\* handler goes on to page the operators, or reports that none could be
\* paged; it never answers with a record, a list, or "data not loaded".
C11_EscalationShortCircuits ==
    [][\A u \in Users :
        Admitted(u, "escalate") =>
            \/ task'[u].pc = "notify_send"
            \/ replies' = <<"manager_not_notified">>]_vars

\* the steps of handle_text_message, call_manager and notify_manager
TextSteps ==
    {"handle_text_message", "handle_text_message.answer",
     "handle_text_message.record", "handle_text_message.check_typing_timeout",
     "notify_manager.send", "notify_manager.confirm"}

\* the step just taken ends a run of handle_text_message for a message of u
\* that the gate admitted
TextRunEnds(u) ==
    /\ last_call'.user = u
    /\ last_call'.op \in TextSteps
    /\ task'[u].pc = "idle"
    /\ last_call'.op = "handle_text_message" =>
           is_bot_enabled_result(bot_controller, u)

\* C12: when handle_text_message returns for an admitted message, the typing
\* timer started at admission is cleared, whichever outcome was produced.
C12_TimerClearedAtReturn ==
    [][\A u \in Users :
        TextRunEnds(u) =>
            bot_controller'.user_sessions[u].typing_started = None]_vars

\* ====================================================================
\* Properties of the catalog cache (SpecCache)
\* ====================================================================
\* a reload has run to its end and no other has begun
Reloaded == loader.pc = "idle" /\ loader.runs > 0

\* C13: after a reload in which the fetch of one sheet failed, the other
\* sheets hold their newly fetched records and the failed sheet holds what it
\* held before the reload (nothing, if it was never loaded).
C13_FailedFetchKeepsSnapshot ==
    (Reloaded /\ Cardinality(loader.failed) = 1) =>
        \A cat \in Categories :
            cache_get(gsheets_client, cat, << >>) =
                IF cat \in loader.failed
                THEN loader.before[cat]
                ELSE loader.results[cat]

\* C14: while a reload is in flight, a reader finds under each sheet either
\* the complete list the sheet held before the reload or the complete list
\* just fetched for it.
C14_ReadersSeeOldOrNew ==
    loader.pc = "loading" =>
        \A cat \in Categories :
            \/ cache_get(gsheets_client, cat, << >>) = loader.before[cat]
            \/ /\ cat \notin loader.pending \cup loader.failed
               /\ cache_get(gsheets_client, cat, << >>) = loader.results[cat]

\* C15: after a reload, the synonym table that queries read from the cache,
\* key synonyms_dict, is the table built from the cached synonym rows.
C15_SynonymTableCached ==
    Reloaded =>
        cache_get(gsheets_client, "synonyms_dict", << >>) =
            parse_synonyms(cache_get(gsheets_client, "synonyms", << >>))

\* C16: a query about a sheet whose cache is empty is answered "data not
\* loaded"; and a reload in which every fetch failed neither reports the
\* data as loaded nor sets data_loaded.
C16_EmptyCacheReported ==
    [][/\ \A cat \in Askable :
              (/\ last_call'.op = "query"
               /\ last_read'.key = cat
               /\ cache_get(gsheets_client, cat, << >>) = << >>)
              => replies' = <<"data_not_loaded">>
       /\ (last_call'.op = "reload.finish" /\ loader.failed = Categories)
              => /\ replies' # <<"loaded">>
                 /\ data_loaded' = data_loaded]_vars

\* ====================================================================
\* Properties of search and synonym rewriting (SpecSearch)
\* ====================================================================
\* the rule of the specification: the whole query is a substring of the
\* lowercased name, or a whitespace-separated word of the name is a substring
\* of the query
RuleMatches(q, name) ==
    \/ IsSubstring(q, Lower(name))
    \/ \E w \in {Split(Lower(name))[k] : k \in 1..Len(Split(Lower(name)))} :
           IsSubstring(w, q)

\* the first record, in sequence order, that the rule selects; 0 when none
FirstByRule(q, records) ==
    LET hits == {i \in 1..Len(records) : RuleMatches(q, records[i])}
    IN IF hits = {} THEN 0 ELSE CHOOSE i \in hits : \A j \in hits : i <= j

C18_SearchRewritesQuery ==
    search.op = "found_tariff" =>
        search.result =
            found_tariff(UserText(normalize_query(search.query, search.table)),
                         search.records, 1)

\* C19: the model lookup selects a record exactly when the rule of the tariff
\* search does, and returns the first such record.
C19_ModelSearchSameRule ==
    search.op = "found_model" =>
        search.result = FirstByRule(UserText(search.query), search.records)

\* a lowercase token: a text of one word, in lower case
IsToken(t) ==
    /\ t # << >>
    /\ \A i \in 1..Len(t) : t[i] # " " /\ t[i] = LowerChar(t[i])

\* the main words of table T that list t as a variant
CanonicalsOf(t, T) ==
    {T[i].main : i \in {j \in 1..Len(T) :
                           \E k \in 1..Len(T[j].syns) : T[j].syns[k] = t}}

\* C20 as stated: for every table T and lowercase token t, rewrite(t, T) = c
\* for every c of which t is a registered variant, rewrite(t, T) = t if t is
\* not a registered variant, and the table is not changed.
C20_RewriteEveryTable ==
    [][(search'.op = "normalize_query" /\ IsToken(search.query)) =>
          /\ \A c \in CanonicalsOf(search.query, search.table) :
                 search'.result = c
          /\ CanonicalsOf(search.query, search.table) = {} =>
                 search'.result = search.query
          /\ search'.table = search.table]_vars

\* C20, amended: for every table T and lowercase token t, rewrite(t, T) = c
\* if t is a registered variant of c alone; if several main words list t,
\* rewrite(t, T) is one of them; rewrite(t, T) = t if t is not a registered
\* variant; and the table is not changed.
C20_RewriteToken ==
    [][(search'.op = "normalize_query" /\ IsToken(search.query)) =>
          LET cs == CanonicalsOf(search.query, search.table)
          IN /\ cs # {} => search'.result \in cs
             /\ cs = {} => search'.result = search.query
             /\ search'.table = search.table]_vars

\* a token that one main word lists as its variant has been rewritten to it
C20_Witness ==
    /\ search.op = "normalize_query"
    /\ IsToken(search.query)
    /\ CanonicalsOf(search.query, search.table) = {search.result}
    /\ search.result # search.query

\* the main word of the first entry of table T, in table order, that lists t
FirstCanonical(t, T) ==
    LET S == {j \in 1..Len(T) : \E k \in 1..Len(T[j].syns) : T[j].syns[k] = t}
    IN T[CHOOSE i \in S : \A j \in S : i <= j].main

\* C21: a lowercase token listed as a variant under several canonical terms
\* is rewritten to the canonical of the first entry, in table order, that
\* lists it (first match wins).
C21_FirstMatchWins ==
    [][(/\ search'.op = "normalize_query"
        /\ IsToken(search.query)
        /\ CanonicalsOf(search.query, search.table) # {}) =>
          search'.result = FirstCanonical(search.query, search.table)]_vars

\* ====================================================================
\* Properties of the classification and the escalation decision (SpecIntent)
\* ====================================================================
\* the escalation decision as stated: a keyword in the lowercased text, or
\* the intent contact_request
EscalationRule(text, intent) ==
    \/ \E k \in 1..Len(manager_keywords) :
           IsSubstring(manager_keywords[k], Lower(text))
    \/ intent = "contact_request"

\* C22: should_call_manager(text, intent) is true if and only if the
\* lowercased text contains one of the fixed escalation keywords or the
\* intent is contact_request, whatever was called before.
C22_EscalationDecision ==
    [][ai_assistant'.op = "should_call_manager" =>
          /\ ai_assistant'.call_manager =
                 EscalationRule(ai_assistant'.query, ai_assistant'.intent)
          /\ ai_assistant'.query = ai_assistant.query]_vars

\* the decision is made by the intent alone, after an earlier call that
\* decided otherwise for the same text
C22_Witness ==
    /\ ai_assistant.op = "should_call_manager"
    /\ ai_assistant.call_manager
    /\ ai_assistant.intent = "contact_request"
    /\ ai_assistant.query # << >>
    /\ ~EscalationRule(ai_assistant.query, "unknown")

\* the groups of intent_patterns with a pattern in the lowercased text
MatchingGroups(text) ==
    {g \in 1..Len(intent_patterns) :
        \E k \in 1..Len(intent_patterns[g].patterns) :
            IsSubstring(intent_patterns[g].patterns[k], Lower(text))}

\* a keyword of the list is in the lowercased text
HasKeyword(words, text) ==
    \E k \in 1..Len(words) : IsSubstring(words[k], Lower(text))

\* the classification as stated
IntentRule(text) ==
    IF text # << >> /\ Lower(text)[1] = "/" THEN "command"
    ELSE IF MatchingGroups(text) # {}
    THEN intent_patterns[CHOOSE g \in MatchingGroups(text) :
                            \A h \in MatchingGroups(text) : g <= h].intent
    ELSE IF HasKeyword(tariff_words, text) THEN "tariff_info"
    ELSE IF HasKeyword(model_words, text) THEN "model_info"
    ELSE "unknown"

\* C23: detect_intent returns command for a text starting with the command
\* prefix, otherwise the intent of the first group in declared order with a
\* matching pattern, otherwise tariff_info or model_info by the keyword
\* fallback (tariff first), and unknown only when nothing fires.
C23_IntentPriority ==
    [][ai_assistant'.op = "detect_intent" =>
          ai_assistant'.detected = IntentRule(ai_assistant.query)]_vars

\* a text matching patterns of two groups has been given the first group's
\* intent
C23_Witness ==
    /\ ai_assistant.op = "detect_intent"
    /\ \E g, h \in MatchingGroups(ai_assistant.query) :
           /\ g < h
           /\ intent_patterns[g].intent # intent_patterns[h].intent
           /\ ai_assistant.detected = intent_patterns[g].intent

\* C24: detect_intent is total: for every text, the empty one included, it
\* returns one value of the intent enumeration.
C24_IntentTotal ==
    [][ai_assistant'.op = "detect_intent" =>
          ai_assistant'.detected \in
              {"command", "greeting", "farewell", "tariff_info", "model_info",
               "portfolio_request", "schedule_request", "contact_request",
               "thanks", "unknown"}]_vars

\* the empty text has been classified
C24_Witness ==
    /\ ai_assistant.op = "detect_intent"
    /\ ai_assistant.query = << >>
    /\ ai_assistant.detected = "unknown"

\* ====================================================================
\* Properties of the rate limit and of the operator overrides
\* ====================================================================
\* C25: check_message_rate_limit(u) returns true for every user in every
\* state and changes no state, however many messages the user has sent.
C25_NeverRateLimited ==
    [][last_call'.op = "check_message_rate_limit" =>
          /\ last_call'.ret = TRUE
          /\ bot_controller' = bot_controller]_vars

\* the limit has been asked for a user who has sent MaxMessages messages
C25_Witness ==
    /\ last_call.op = "check_message_rate_limit"
    /\ last_call.user \in DOMAIN bot_controller.user_sessions
    /\ bot_controller.user_sessions[last_call.user].message_count
           = MaxMessages
    /\ last_call.ret = TRUE

\* user u occurs exactly once in the override list of operator m
ListedOnce(c, u, m) ==
    /\ m \in DOMAIN c.manager_overrides
    /\ Cardinality({i \in 1..Len(c.manager_overrides[m]) :
                       c.manager_overrides[m][i] = u}) = 1

\* no override list holds a user twice
NoDuplicateOverrides(c) ==
    \A m \in DOMAIN c.manager_overrides :
        \A i, j \in 1..Len(c.manager_overrides[m]) :
            c.manager_overrides[m][i] = c.manager_overrides[m][j] => i = j

\* C26: every enable_bot_for_user or disable_bot_for_user call made with an
\* operator id adds exactly one to manager_interventions and leaves the user
\* in that operator's override list, and no list holds a user twice; a call
\* without an operator id changes neither the counter nor any list.
C26_OverridesRecorded ==
    [][\A u \in Users, m \in ManagerArgs :
          (EnableBotForUser(u, m) \/ DisableBotForUser(u, m)) =>
              IF m # None
              THEN /\ bot_controller'.stats.manager_interventions =
                          bot_controller.stats.manager_interventions + 1
                   /\ ListedOnce(bot_controller', u, m)
                   /\ NoDuplicateOverrides(bot_controller')
              ELSE /\ bot_controller'.stats.manager_interventions =
                          bot_controller.stats.manager_interventions
                   /\ bot_controller'.manager_overrides =
                          bot_controller.manager_overrides]_vars

\* ====================================================================
\* Properties of the notifier (SpecPaging, SpecNotifier)
\* ====================================================================
\* the notifications tracked for user u
PendingOf(n, u) ==
    SelectSeq(n.pending_notifications, LAMBDA e : e.user_id = u)

\* C27: notify_manager returns true if and only if the delivery to at least
\* one operator succeeded; when it returns false (no operators, or every
\* delivery failed) the requester is told that the manager could not be
\* notified, the run has tracked no notification, and no delivery is tried
\* again: each step of the send loop moves on to the next operator.
C27_FailedPagingReported ==
    [][\A u \in Users :
          /\ (last_call'.op = "call_manager" /\ last_call'.user = u) =>
                 IF manager_notifier.manager_ids = << >>
                 THEN /\ replies' = <<"manager_not_notified">>
                      /\ task'[u].pc = "idle"
                      /\ manager_notifier' = manager_notifier
                 ELSE /\ task'[u] = [Idle EXCEPT !.pc = "notify_send",
                                                 !.idx = 1]
                      /\ PendingOf(manager_notifier', u) =
                             PendingOf(manager_notifier, u)
          /\ (last_call'.op = "notify_manager.send" /\ last_call'.user = u) =>
                 LET delivered == last_call'.ret
                     some == task[u].success \/ delivered
                     last == task[u].idx = Len(manager_notifier.manager_ids)
                 IN /\ ~delivered =>
                           manager_notifier' = manager_notifier
                    /\ ~last =>
                           task'[u] = [pc |-> "notify_send",
                                       idx |-> task[u].idx + 1,
                                       success |-> some]
                    /\ (last /\ some) =>
                           task'[u].pc = "notify_confirm"
                    /\ (last /\ ~some) =>
                           /\ task'[u].pc = "idle"
                           /\ replies' = <<"manager_not_notified">>]_vars

\* every delivery of a call with two operators has failed and the requester
\* has been told
C27_Witness ==
    /\ last_call.op = "notify_manager.send"
    /\ last_call.ret = FALSE
    /\ Len(manager_notifier.manager_ids) = 2
    /\ task[last_call.user].pc = "idle"
    /\ replies = <<"manager_not_notified">>
    /\ manager_notifier.stats.total_calls > 0
    /\ PendingOf(manager_notifier, last_call.user) = << >>

\* C28: there is one pending escalation per (user id, operator id) pair: the
\* pending list never holds two unhandled entries for the same user and
\* operator.
C28_OnePendingPerPair ==
    \A i, j \in 1..Len(manager_notifier.pending_notifications) :
        LET a == manager_notifier.pending_notifications[i]
            b == manager_notifier.pending_notifications[j]
        IN (/\ ~a.handled /\ ~b.handled
            /\ a.user_id = b.user_id
            /\ a.manager_id = b.manager_id) => i = j

\* the entries of the pending list not yet handled, in list order
Unhandled(n) == SelectSeq(n.pending_notifications, LAMBDA e : ~e.handled)

IsPrefix(s, t) == Len(s) <= Len(t) /\ SubSeq(t, 1, Len(s)) = s

\* s with at most one of its elements left out
DropsAtMostOne(s, t) ==
    \/ t = s
    \/ \E i \in 1..Len(s) : t = SubSeq(s, 1, i - 1) \o SubSeq(s, i + 1, Len(s))

\* C29: an unhandled pending escalation stays pending until an operator
\* action marks it handled: a step other than mark_notification_handled
\* leaves every unhandled entry in the list, unhandled, and
\* mark_notification_handled takes at most one entry out of the unhandled
\* ones, by marking it.
C29_PendingUntilHandled ==
    [][IF last_call'.op = "mark_notification_handled"
       THEN /\ DropsAtMostOne(Unhandled(manager_notifier),
                              Unhandled(manager_notifier'))
            /\ Len(manager_notifier'.pending_notifications) =
                   Len(manager_notifier.pending_notifications)
       ELSE IsPrefix(Unhandled(manager_notifier),
                     Unhandled(manager_notifier'))]_vars

\* the entries of the pending list that have been handled
HandledEntries(n) == SelectSeq(n.pending_notifications, LAMBDA e : e.handled)

\* the sum of the response times, handled time minus creation time
RECURSIVE SumResponseTimes(_)
SumResponseTimes(entries) ==
    IF entries = << >> THEN 0
    ELSE (entries[1].handled_at - entries[1].timestamp)
             + SumResponseTimes(Tail(entries))

\* C30: after mark_notification_handled has resolved n >= 1 notifications
\* (all of them still in the list), stats.avg_response_time is the
\* arithmetic mean of their response times.
C30_AverageIsMean ==
    LET n == manager_notifier.stats.handled_calls
        avg == manager_notifier.stats.avg_response_time
    IN (n >= 1 /\ Len(HandledEntries(manager_notifier)) = n) =>
           avg.num * n = avg.den * SumResponseTimes(HandledEntries(manager_notifier))

\* ====================================================================
\* Properties of clean_text (SpecClean)
\* ====================================================================
\* no whitespace at either end and no two whitespace characters in a row
Tidy(s) ==
    /\ s # << >> => (s[1] \notin Whitespace /\ s[Len(s)] \notin Whitespace)
    /\ \A i \in 1..(Len(s) - 1) :
           ~(s[i] \in Whitespace /\ s[i + 1] \in Whitespace)

\* C31: clean_text without a length limit is idempotent, and its result has
\* no leading or trailing whitespace and no run of two or more whitespace
\* characters.
C31_CleanIdempotent ==
    [][/\ search'.op = "clean_text" => Tidy(search'.result)
       /\ CleanAgain => search'.result = search.result]_vars

\* a text with an accent that decomposes into whitespace, and with whitespace
\* at an end, has been cleaned twice
C31_Witness ==
    /\ search.op = "clean_text"
    /\ search.result = search.query
    /\ search.result = <<"a", " ", "comb">>

\* ====================================================================
\* Properties of disabled users (SpecSessions, SpecBot)
\* ====================================================================
\* C32: after any sequence of BotController operations, a user in the
\* disabled set never has an active session.
C32_DisabledNeverActive ==
    \A u \in bot_controller.disabled_users :
        u \in DOMAIN bot_controller.user_sessions =>
            ~bot_controller.user_sessions[u].active

AiResponsesOf(c, u) ==
    IF u \in DOMAIN c.user_sessions THEN c.user_sessions[u].ai_responses ELSE 0

\* C33: while a user is in the disabled set, the user's ai_responses counter
\* never increases, whatever the interleaving of the operator's disable with
\* the handling of the user's message.
C33_NoAnswerAfterDisable ==
    [][\A u \in Users :
           u \in bot_controller.disabled_users =>
               AiResponsesOf(bot_controller', u) <= AiResponsesOf(bot_controller, u)]_vars

SessionActive(c, u) ==
    u \in DOMAIN c.user_sessions /\ c.user_sessions[u].active

ExplicitEnable(u) ==
    /\ last_call'.op \in {"enable_bot_for_user", "toggle_bot_for_user"}
    /\ last_call'.user = u

\* C34: a disabled user cannot re-enable themselves: every step other than
\* an explicit enable or toggle call for the user keeps the user in the
\* disabled set and does not reactivate the user's session.
C34_NoSelfEnable ==
    [][\A u \in Users :
           (u \in bot_controller.disabled_users /\ ~ExplicitEnable(u)) =>
               /\ u \in bot_controller'.disabled_users
               /\ SessionActive(bot_controller', u) => SessionActive(bot_controller, u)]_vars

\* a disabled user's /start has been answered by the gate
C34_Witness ==
    /\ last_call.op = "cmd_start.gate"
    /\ last_call.user \in bot_controller.disabled_users
    /\ replies = <<"blocked">>

RECURSIVE SumAiResponses(_, _)
SumAiResponses(c, S) ==
    IF S = {} THEN 0
    ELSE LET u == CHOOSE x \in S : TRUE
         IN  c.user_sessions[u].ai_responses + SumAiResponses(c, S \ {u})

C36_HandledWithinTotal ==
    manager_notifier.stats.handled_calls <= manager_notifier.stats.total_calls

Candidates(P, u, m) ==
    {i \in 1..Len(P) :
        /\ P[i].user_id = u
        /\ ~P[i].handled
        /\ (m = None \/ P[i].manager_id = m)}

\* C37: mark_notification_handled(user, operator) marks exactly one entry,
\* the earliest still-unhandled entry of that user (of the given operator
\* when one is passed), adds one to handled_calls and returns true; when
\* there is no such entry it returns false and changes neither the pending
\* list nor the statistics.
C37_MarksEarliestOnly ==
    [][last_call'.op = "mark_notification_handled" =>
          LET P    == manager_notifier.pending_notifications
              Q    == manager_notifier'.pending_notifications
              cand == Candidates(P, last_call'.user, last_call'.manager_id)
          IN  IF cand = {}
              THEN /\ last_call'.ret = FALSE
                   /\ Q = P
                   /\ manager_notifier'.stats = manager_notifier.stats
              ELSE /\ last_call'.ret = TRUE
                   /\ Len(Q) = Len(P)
                   /\ manager_notifier'.stats.handled_calls
                          = manager_notifier.stats.handled_calls + 1
                   /\ \E i \in cand :
                          /\ \A j \in cand : i <= j
                          /\ Q[i].handled
                          /\ Q[i].user_id = P[i].user_id
                          /\ Q[i].manager_id = P[i].manager_id
                          /\ Q[i].timestamp = P[i].timestamp
                          /\ \A k \in 1..Len(P) : k # i => Q[k] = P[k]]_vars

\* a call has marked one entry of a user and left a later one of the same
\* user unhandled
C37_Witness ==
    /\ last_call.op = "mark_notification_handled"
    /\ last_call.ret = TRUE
    /\ \E i, j \in 1..Len(manager_notifier.pending_notifications) :
           /\ i < j
           /\ manager_notifier.pending_notifications[i].handled
           /\ ~manager_notifier.pending_notifications[j].handled
           /\ manager_notifier.pending_notifications[i].user_id = last_call.user
           /\ manager_notifier.pending_notifications[j].user_id = last_call.user

\* C38: a successful escalation sends the user exactly one confirmation
\* that an operator has been notified.
C38_OneConfirmation ==
    last_call.op = "notify_manager.confirm" =>
        Cardinality({i \in 1..Len(replies) : replies[i] = "manager_notified"}) = 1

\* C39: normalize_query is idempotent: rewriting an already rewritten query
\* with the same synonym table changes nothing.
C39_NormalizeIdempotent ==
    search.op = "normalize_query" =>
        normalize_query(search.result, search.table) = search.result

TypeOK ==
    /\ bot_controller.enabled_users \subseteq Users
    /\ bot_controller.disabled_users \subseteq Users
    /\ DOMAIN bot_controller.user_sessions \subseteq Users
    /\ now \in Nat

====
